---- MODULE Spec2Model ----
(***************************************************************************)
(* SyncKit: field-granular last-write-wins documents.                      *)
(*                                                                         *)
(* SyncDocument (sdk document module) keeps a local counter, a cached copy *)
(* of the visible data and a persisted snapshot, and drives a WasmDocument *)
(* (the compiled core: registers with (clock, client) stamps and a vector  *)
(* clock).  Several replicas of one document id are modelled, each with    *)
(* its own client id and its own storage.                                  *)
(***************************************************************************)
EXTENDS Integers, Sequences, FiniteSets, TLC

\* ------------------------------------------------------------------ bounds
MaxClock == 2
MaxOps == 4
MaxBuild == 2
MaxFieldOps == 7
MaxSrvOps == 7
MaxPgTxns == 2
MaxBootOps == 6
MaxKitOps == 8
MaxWasmOps == 6
MaxObsOps == 6
MaxInitOps == 5

\* ---------------------------------------------------------------- universe
Clients == {"A", "B"}
Paths == {"p", "q"}
Values == {"x", "y"}

\* lexicographic order of the replica identifiers
IdOrder == <<"A", "B", "C">>
IdRank(id) == CHOOSE i \in 1..Len(IdOrder) : IdOrder[i] = id
IdLess(a, b) == IdRank(a) < IdRank(b)

Max(a, b) == IF a >= b THEN a ELSE b

\* ------------------------------------------------------- registers, stamps
Tombstone == "TOMB"
NoReg == [value |-> "ABSENT", clock |-> 0, client |-> "-"]
Reg(v, c, id) == [value |-> v, clock |-> c, client |-> id]

\* total order of stamps: clock first, then replica identifier
StampGreater(a, b) ==
    \/ a.clock > b.clock
    \/ a.clock = b.clock /\ IdLess(b.client, a.client)

\* register assign: adopt when uninitialized, overwrite only with a higher stamp
AssignAlways(reg, new) == new
Assign(reg, new) ==
    IF reg = NoReg THEN new
    ELSE IF StampGreater(new, reg) THEN new
    ELSE reg

\* ------------------------------------------------------------ vector clock
EmptyClock == [c \in Clients |-> 0]
ObserveTick(vc, id, v) == [vc EXCEPT ![id] = @ + 1]
Observe(vc, id, v) == [vc EXCEPT ![id] = Max(@, v)]
ClockMerge(vc, other) == [c \in Clients |-> Max(vc[c], other[c])]

\* ------------------------------------------------------------ WasmDocument
EmptyDoc == [fields |-> [p \in Paths |-> NoReg], vc |-> EmptyClock]

WasmSetField(doc, path, value, clk, id) ==
    [fields |-> [doc.fields EXCEPT ![path] = Assign(@, Reg(value, clk, id))],
     vc |-> Observe(doc.vc, id, clk)]

\* deleteField receives the path only: the register stays, its value becomes
\* the tombstone, and no new stamp is available to give it
WasmDeleteField(doc, path) ==
    [doc EXCEPT !.fields[path] =
        IF @ = NoReg THEN @ ELSE [@ EXCEPT !.value = Tombstone]]

WasmMerge(doc, other) ==
    [fields |-> [p \in Paths |->
                    IF other.fields[p] = NoReg THEN doc.fields[p]
                    ELSE Assign(doc.fields[p], other.fields[p])],
     vc |-> ClockMerge(doc.vc, other.vc)]

\* toJSON followed by JSON.parse: path -> value; a path with no register or
\* with a tombstone is not a key of the object and reads as undefined
Undefined == "UNDEF"
ToJSON(doc) ==
    [p \in Paths |->
        IF doc.fields[p] = NoReg \/ doc.fields[p].value = Tombstone
        THEN Undefined ELSE doc.fields[p].value]

\* ------------------------------------------------------------------- state
VARIABLES
    clock,      \* SyncDocument.clock of each replica
    wasmDoc,    \* SyncDocument.wasmDoc of each replica
    data,       \* SyncDocument.data of each replica
    stored,     \* the StoredDocument in each replica's storage
    merged,     \* history: the replicas whose writes each replica has merged
    lastOp,     \* history: the operation that produced the state
    tomb,       \* history: the paths last deleted, after every write to them
    nOps,       \* history: the number of operations performed
    limit,      \* the number of operations a behaviour is followed for
    docs,       \* three WasmDocuments a, b, d built with setField/deleteField
    deltas,     \* the WasmDeltas computed from them
    applied,    \* the documents the deltas were applied to
    dpc,        \* position of the delta exercise
    nBuild,     \* the number of setField/deleteField calls that built docs
    conns,      \* server: state and token payload of each connection
    subs,       \* server: the coordinator's subscriber set of each document
    srvClock,   \* server: the coordinator's vector clock of each document
    documents,  \* server: the coordinator's document state of each document
    sent,       \* server: the send calls made by the last handler
    srvOp,      \* server history: the message the last handler handled
    nSrv,       \* server history: the number of messages handled
    published,  \* server: the messages published to Redis channels
    pgTable,    \* PostgreSQL: the committed vector_clocks rows
    pgTxn,      \* PostgreSQL: each pooled client's open transaction
    pgOp,       \* PostgreSQL history: the last transaction step
    nPg,        \* PostgreSQL history: the number of merges begun
    phase,      \* server process: "boot" until the server is constructed
    storageConnected,  \* server process: the PostgreSQL adapter is in use
    redisConnected,    \* server process: the Redis pub/sub is in use
    bootOp,     \* server process history: how each connect ended
    srvLimit,   \* the number of messages handled in this run
    initialized,   \* SyncKit: init() has completed
    kitInits,      \* SyncKit: the position of each init() call
    kitDocuments,  \* SyncKit: the cache, document id -> instance (0: none)
    kitStore,      \* SyncKit: the document ids in storage
    nInst,         \* SyncKit: the number of SyncDocument instances created
    initStarted,   \* SyncKit: doc.init() calls started, per instance
    disposed,      \* SyncKit: the instances dispose() was called on
    kitOp,         \* SyncKit history: the last step
    kitFailures,   \* SyncKit history: the number of failed init() calls
    nKit,          \* SyncKit history: the number of steps
    wasmModule,    \* wasm-loader: the cached module (0: null)
    initPromise,   \* wasm-loader: the initialization promise (0: null)
    promises,      \* wasm-loader: the state of each initialization promise
    callers,       \* wasm-loader: what each initWASM() call awaits
    wasmOp,        \* wasm-loader history: the last step
    nWasm,         \* wasm-loader history: the number of steps
    subscribers,   \* SyncDocument: the subscribed callbacks
    docReady,      \* SyncDocument: wasmDoc is not null
    writes,        \* SyncDocument: the local writes reflected in this.data
    persisted,     \* storage: the local writes in the stored snapshot
    inFlight,      \* SyncDocument: the operations awaiting persist()
    active,        \* history: callbacks subscribed and not removed since
    handles,       \* history: callbacks that hold an unsubscribe function
    notifyOp,      \* history: the last step and the callbacks it invoked
    nObs,          \* history: the number of steps
    initPc,        \* SyncDocument.init(): its position, per replica
    fetched,       \* SyncDocument.init(): what storage.get will resolve to
    queue,         \* storage: the set() calls it has not settled yet
    written,       \* history: the last set/update of each path
    overlap,       \* history: replicas with overlapping / rejected writes
    nInit,         \* history: the number of steps
    handlers,      \* RedisPubSub.handlers: channel -> set of handlers
    subscribed,    \* Redis: the channels the subscriber connection is on
    redisCommands, \* Redis: SUBSCRIBE/UNSUBSCRIBE commands not yet answered
    redisOp,       \* RedisPubSub history: the last step
    nRedis,        \* RedisPubSub history: the number of steps
    dbState,       \* PostgreSQL server: "unprobed", "up", "down", "recovered"
    shutPc,        \* server process: the position of shutdown()
    closes,        \* environment: which close() calls ever complete
    timerSet,      \* server process: the forced-exit timer is registered
    exitCode       \* server process: the code of process.exit (-1: none)

svars == <<clock, wasmDoc, data, stored, merged, lastOp, tomb, nOps, limit>>
dvars == <<docs, deltas, applied, dpc, nBuild>>
wvars == <<conns, subs, srvClock, documents, sent, srvOp, nSrv>>
vars == <<clock, wasmDoc, data, stored, merged, lastOp, tomb, nOps, limit,
          docs, deltas, applied, dpc, nBuild,
          conns, subs, srvClock, documents, sent, srvOp, nSrv,
          published, pgTable, pgTxn, pgOp, nPg,
          phase, storageConnected, redisConnected, bootOp, srvLimit,
          initialized, kitInits, kitDocuments, kitStore, nInst, initStarted,
          disposed, kitOp, kitFailures, nKit,
          wasmModule, initPromise, promises, callers, wasmOp, nWasm,
          subscribers, docReady, writes, persisted, inFlight, active,
          handles, notifyOp, nObs,
          initPc, fetched, queue, written, overlap, nInit,
          handlers, subscribed, redisCommands, redisOp, nRedis,
          dbState, shutPc, closes, timerSet, exitCode>>
ivars == <<initPc, fetched, queue, written, overlap, nInit>>
rvars == <<handlers, subscribed, redisCommands, redisOp, nRedis>>
pvars == <<dbState>>
hvars == <<shutPc, closes, timerSet, exitCode>>
zvars == <<rvars, pvars, hvars>>
yvars == <<ivars, zvars>>
ovars == <<subscribers, docReady, writes, persisted, inFlight, active,
           handles, notifyOp, nObs>>
lvars == <<wasmModule, initPromise, promises, callers, wasmOp, nWasm>>
kvars == <<initialized, kitInits, kitDocuments, kitStore, nInst, initStarted,
           disposed, kitOp, kitFailures, nKit>>
pgvars == <<pgTable, pgTxn, pgOp, nPg>>
bvars == <<phase, storageConnected, redisConnected, bootOp, srvLimit>>
xvars == <<published, pgvars, bvars, kvars, lvars, ovars, yvars>>
basevars == <<svars, dvars, wvars, published, pgvars, bvars, kvars, lvars,
              ovars, ivars>>

NoStored == [present |-> FALSE, data |-> [p \in Paths |-> Undefined],
             version |-> EmptyClock]

Op(name, r, s, path, value) ==
    [op |-> name, r |-> r, s |-> s, path |-> path, value |-> value,
     upd |-> <<>>]

DocNames == {"a", "b", "d"}

InitDocuments ==
    /\ clock = [r \in Clients |-> 0]
    /\ wasmDoc = [r \in Clients |-> EmptyDoc]
    /\ data = [r \in Clients |-> ToJSON(EmptyDoc)]
    /\ stored = [r \in Clients |-> NoStored]
    /\ merged = [r \in Clients |-> {r}]
    /\ lastOp = Op("init", "-", "-", "-", "-")
    /\ tomb = {}
    /\ nOps = 0

NoDelta == [p \in Paths |-> NoReg]

InitDeltas ==
    /\ docs = [n \in DocNames |-> EmptyDoc]
    /\ deltas = [d1 |-> NoDelta, d2 |-> NoDelta, ab |-> NoDelta]
    /\ applied = [once |-> EmptyDoc, twice |-> EmptyDoc, o12 |-> EmptyDoc,
                  o21 |-> EmptyDoc, f |-> EmptyDoc]
    /\ dpc = "build"
    /\ nBuild = 0

\* ------------------------------------------------- server: SyncWebSocketServer
\* connection ids are handed out in this order (conn-1, conn-2, ...)
ConnOrder == <<"conn-1", "conn-2", "conn-3">>
ConnIds == {ConnOrder[i] : i \in 1..Len(ConnOrder)}
DocIds == {"d1", "d2"}
wsMaxConnections == 3

\* token payloads: document permissions of the user the token was issued to
Permissions(r, w, a) == [canRead |-> r, canWrite |-> w, isAdmin |-> a]
NoPayload == [userId |-> "-", permissions |-> Permissions({}, {}, FALSE)]
\* an anonymous payload that grants every document
AnonymousGranted ==
    [userId |-> "anonymous", permissions |-> Permissions(DocIds, DocIds, FALSE)]
AnonymousPayload ==
    [userId |-> "anonymous", permissions |-> Permissions({}, {}, FALSE)]
Tokens == {"writer", "reader", "admin"}
TokenPayload(t) ==
    [userId |-> t,
     permissions |->
        IF t = "writer" THEN Permissions({"d1"}, {"d1"}, FALSE)
        ELSE IF t = "reader" THEN Permissions({"d1"}, {}, FALSE)
        ELSE Permissions({}, {}, TRUE)]

\* verifyToken: the payload of a token that verifies, null (NoPayload) otherwise
VerifyToken(t) == IF t \in Tokens THEN TokenPayload(t) ELSE NoPayload

CanReadDocument(payload, d) ==
    payload.permissions.isAdmin \/ d \in payload.permissions.canRead
CanWriteDocument(payload, d) ==
    payload.permissions.isAdmin \/ d \in payload.permissions.canWrite

\* messages: ids and timestamps are left out
\* AUTH with a token, with an apiKey, with both, or with neither
AuthMsgs ==
    {[type |-> "AUTH", token |-> t, apiKey |-> k] :
        t \in Tokens \cup {"invalid", ""}, k \in {""}}
    \cup {[type |-> "AUTH", token |-> t, apiKey |-> "key"] :
              t \in {"", "writer"}}
\* the vector clock of a client that has seen A's first write; a sync request
\* may carry none
MsgClock == [c \in Clients |-> IF c = "A" THEN 1 ELSE 0]
SyncRequestMsgs ==
    {[type |-> "SYNC_REQUEST", documentId |-> d, hasClock |-> h,
      vectorClock |-> MsgClock] : d \in DocIds, h \in BOOLEAN}
\* a delta with one change: A's first write, of x or of y, to p
DeltaMsgs ==
    {[type |-> "DELTA", documentId |-> d,
      delta |-> [NoDelta EXCEPT !["p"] = Reg(v, 1, "A")],
      vectorClock |-> MsgClock] : d \in DocIds, v \in Values}
NoMsg == [type |-> "-"]

AuthSuccess(userId, permissions) ==
    [type |-> "AUTH_SUCCESS", userId |-> userId, permissions |-> permissions]
AuthError == [type |-> "AUTH_ERROR", error |-> "Authentication failed"]
ErrorMsg(text, d) == [type |-> "ERROR", error |-> text, documentId |-> d]
SyncResponse(d, state) ==
    [type |-> "SYNC_RESPONSE", documentId |-> d, state |-> state,
     deltas |-> <<>>]

\* a call connection.send(msg) on connection `to` and the boolean it returned
Send(to, msg, ok) == [to |-> to, msg |-> msg, ok |-> ok]

NoConn == [state |-> "None", tokenPayload |-> NoPayload]
NewConn == [state |-> "Unauthenticated", tokenPayload |-> NoPayload]
\* a closed connection is out of the registry and handles no message again
ClosedConn == [state |-> "Closed", tokenPayload |-> NoPayload]
OpenStates == {"Unauthenticated", "Authenticated"}

\* the registry holds the connections that are not closed
Registry == {c \in ConnIds : conns[c].state \in OpenStates}

SrvOp(name, c, d, msg) == [op |-> name, c |-> c, d |-> d, msg |-> msg]

\* RedisPubSub: nothing published yet
InitPubSub == published = {}

\* getDocumentChannel: prefix, "doc:", document id
ChannelPrefix == "synckit:"
DocumentChannel(d) == <<ChannelPrefix, "doc:", d>>

\* the server after construction, its coordinator holding the documents ds
InitCoordinator(ds) ==
    /\ conns = [c \in ConnIds |-> NoConn]
    /\ subs = [d \in DocIds |-> {}]
    /\ srvClock = [d \in DocIds |-> EmptyClock]
    /\ documents = ds
    /\ sent = {}
    /\ srvOp = SrvOp("init", "-", "-", NoMsg)
    /\ nSrv = 0

InitServer == InitCoordinator([d \in DocIds |-> NoDelta])

\* ------------------------------------------ PostgresAdapter: vector clocks
\* pooled clients that can run a merge at the same time
PgClients == {"pg-1", "pg-2"}

\* no row for (document_id, client_id)
NoRow == -1

EmptyMap == [x \in {} |-> 0]

\* the clock argument: a record from client ids to values
PgValues == {1, 2}
PgClocks == UNION {[S -> PgValues] : S \in SUBSET Clients}

\* Object.entries(clock): the entries in some key order
Entries(clk) ==
    {o \in UNION {[1..n -> DOMAIN clk] : n \in 0..2} :
        /\ Len(o) = Cardinality(DOMAIN clk)
        /\ \A i, j \in 1..Len(o) : i # j => o[i] # o[j]}

IdleTxn ==
    [state |-> "idle", n |-> 0, doc |-> "-", clock |-> EmptyMap,
     todo |-> <<>>, writes |-> EmptyMap]

PgOp(name, t) == [op |-> name, n |-> t.n, doc |-> t.doc, clock |-> t.clock]

InitPostgres ==
    /\ pgTable = [d \in DocIds |-> [cl \in Clients |-> NoRow]]
    /\ pgTxn = [s \in PgClients |-> IdleTxn]
    /\ pgOp = PgOp("init", IdleTxn)
    /\ nPg = 0

PgFrame(table, txn, op, n) ==
    /\ pgTable' = table
    /\ pgTxn' = txn
    /\ pgOp' = op
    /\ nPg' = n
    /\ UNCHANGED svars
    /\ UNCHANGED dvars
    /\ UNCHANGED wvars
    /\ UNCHANGED published
    /\ UNCHANGED bvars
    /\ UNCHANGED kvars
    /\ UNCHANGED lvars
    /\ UNCHANGED ovars
    /\ UNCHANGED yvars

\* DO UPDATE SET clock_value = $3 (updateVectorClock's statement)
Upsert(row, v) == v

\* INSERT ... ON CONFLICT DO UPDATE SET clock_value = GREATEST(stored, $3)
Greatest(row, v) == IF row = NoRow THEN v ELSE Max(row, v)

\* mergeVectorClock: pool.connect() and BEGIN
PgBegin(s, d, clk, order) ==
    /\ pgTxn[s].state = "idle"
    /\ nPg < MaxPgTxns
    /\ LET t == [state |-> "open", n |-> nPg + 1, doc |-> d, clock |-> clk,
                 todo |-> order, writes |-> EmptyMap]
       IN  PgFrame(pgTable, [pgTxn EXCEPT ![s] = t], PgOp("begin", t),
                   nPg + 1)

\* the row (d, cl) is locked by another open transaction that wrote it
Locked(s, d, cl) ==
    \E o \in PgClients \ {s} :
        /\ pgTxn[o].state = "open"
        /\ pgTxn[o].doc = d
        /\ cl \in DOMAIN pgTxn[o].writes

\* mergeVectorClock: the statement of the next entry of the loop
PgStatement(s) ==
    LET t == pgTxn[s] IN
    /\ t.state = "open"
    /\ t.todo # <<>>
    /\ LET cl == Head(t.todo)
           v  == Greatest(pgTable[t.doc][cl], t.clock[cl])
           w  == [x \in DOMAIN t.writes \cup {cl} |->
                     IF x = cl THEN v ELSE t.writes[x]]
           u  == [t EXCEPT !.todo = Tail(t.todo), !.writes = w]
       IN  /\ ~Locked(s, t.doc, cl)
           /\ PgFrame(pgTable, [pgTxn EXCEPT ![s] = u],
                      PgOp("statement", u), nPg)

\* mergeVectorClock: COMMIT after the loop, and release
PgCommit(s) ==
    LET t == pgTxn[s] IN
    /\ t.state = "open"
    /\ t.todo = <<>>
    /\ PgFrame([pgTable EXCEPT ![t.doc] =
                    [cl \in Clients |->
                        IF cl \in DOMAIN t.writes THEN t.writes[cl]
                        ELSE pgTable[t.doc][cl]]],
               [pgTxn EXCEPT ![s] = IdleTxn], PgOp("commit", t), nPg)

\* mergeVectorClock: a query throws; ROLLBACK, QueryError, release
PgRollback(s) ==
    LET t == pgTxn[s] IN
    /\ t.state = "open"
    /\ PgFrame(pgTable, [pgTxn EXCEPT ![s] = IdleTxn], PgOp("rollback", t),
               nPg)

\* updateVectorClock: one statement on a pooled connection, committed at
\* once; it waits while an open transaction holds the row. The stored value
\* is overwritten: DO UPDATE SET clock_value = $3
PgUpdate(d, cl, v) ==
    /\ nPg < MaxPgTxns
    /\ ~\E s \in PgClients :
          /\ pgTxn[s].state = "open"
          /\ pgTxn[s].doc = d
          /\ cl \in DOMAIN pgTxn[s].writes
    /\ PgFrame([pgTable EXCEPT ![d][cl] = v], pgTxn,
               [op |-> "update", n |-> nPg + 1, doc |-> d,
                clock |-> [x \in {cl} |-> v]],
               nPg + 1)

\* ------------------------------------------------- server process: startup
\* config.databaseUrl / config.redisUrl: unset, a localhost URL, another URL
Urls == {"", "localhost", "remote"}

\* url && !url.includes('localhost')
Configured(url) == url # "" /\ url # "localhost"

\* how a connect ended
Outcome(url, ok) ==
    IF ~Configured(url) THEN "unconfigured"
    ELSE IF ok THEN "connected" ELSE "failed"

\* the PostgreSQL server as storage.connect() found it
Probed(url, ok) ==
    IF ~Configured(url) THEN dbState ELSE IF ok THEN "up" ELSE "down"

NoExit == -1

InitProcess ==
    /\ dbState = "unprobed"
    /\ shutPc = "idle"
    /\ closes = [ws |-> TRUE, http |-> TRUE]
    /\ timerSet = FALSE
    /\ exitCode = NoExit

InitBoot(ph, n) ==
    /\ phase = ph
    /\ storageConnected = FALSE
    /\ redisConnected = FALSE
    /\ bootOp = [db |-> "-", redis |-> "-"]
    /\ srvLimit = n

\* startup that gives up when a configured connect fails
StartupStrict(dbUrl, dbOk, redisUrl, redisOk) ==
    /\ phase = "boot"
    /\ phase' = IF \/ Outcome(dbUrl, dbOk) = "failed"
                   \/ Outcome(redisUrl, redisOk) = "failed"
                THEN "exited" ELSE "running"
    /\ storageConnected' = (Outcome(dbUrl, dbOk) = "connected")
    /\ redisConnected' = (Outcome(redisUrl, redisOk) = "connected")
    /\ bootOp' = [db |-> Outcome(dbUrl, dbOk),
                  redis |-> Outcome(redisUrl, redisOk)]
    /\ srvLimit' = srvLimit
    /\ dbState' = Probed(dbUrl, dbOk)
    /\ UNCHANGED svars
    /\ UNCHANGED dvars
    /\ UNCHANGED wvars
    /\ UNCHANGED published
    /\ UNCHANGED pgvars
    /\ UNCHANGED kvars
    /\ UNCHANGED lvars
    /\ UNCHANGED ovars
    /\ UNCHANGED ivars
    /\ UNCHANGED rvars
    /\ UNCHANGED hvars

\* startup: connect PostgreSQL and Redis when configured, drop the one whose
\* connect throws, then serve and construct the WebSocket server with what
\* is connected
Startup(dbUrl, dbOk, redisUrl, redisOk) ==
    /\ phase = "boot"
    /\ phase' = "running"
    /\ storageConnected' = (Configured(dbUrl) /\ dbOk)
    /\ redisConnected' = (Configured(redisUrl) /\ redisOk)
    /\ bootOp' = [db |-> Outcome(dbUrl, dbOk),
                  redis |-> Outcome(redisUrl, redisOk)]
    /\ srvLimit' = srvLimit
    /\ dbState' = Probed(dbUrl, dbOk)
    /\ UNCHANGED svars
    /\ UNCHANGED dvars
    /\ UNCHANGED wvars
    /\ UNCHANGED published
    /\ UNCHANGED pgvars
    /\ UNCHANGED kvars
    /\ UNCHANGED lvars
    /\ UNCHANGED ovars
    /\ UNCHANGED ivars
    /\ UNCHANGED rvars
    /\ UNCHANGED hvars

\* --------------------------------------- server process: persistence
MaxLiveOps == 3

\* the PostgreSQL server becomes unreachable while the server runs
DbFail ==
    /\ phase = "running"
    /\ dbState = "up"
    /\ dbState' = "down"
    /\ UNCHANGED basevars
    /\ UNCHANGED rvars
    /\ UNCHANGED hvars

\* the PostgreSQL server is reachable again, for good
DbRecover ==
    /\ phase = "running"
    /\ dbState = "down"
    /\ dbState' = "recovered"
    /\ UNCHANGED basevars
    /\ UNCHANGED rvars
    /\ UNCHANGED hvars

\* every vector-clock entry changed in memory is in the vector_clocks table
ClocksSaved ==
    \A d \in DocIds, cl \in Clients :
       srvClock[d][cl] > 0 => pgTable[d][cl] >= srvClock[d][cl]

\* the coordinator, constructed with a storage adapter, writes its vector
\* clocks through mergeVectorClock while PostgreSQL is reachable
Flush ==
    /\ phase = "running"
    /\ storageConnected
    /\ dbState \in {"up", "recovered"}
    /\ ~ClocksSaved
    /\ pgTable' = [d \in DocIds |-> [cl \in Clients |->
                      IF srvClock[d][cl] > 0
                      THEN Greatest(pgTable[d][cl], srvClock[d][cl])
                      ELSE pgTable[d][cl]]]
    /\ UNCHANGED <<pgTxn, pgOp, nPg>>
    /\ UNCHANGED svars
    /\ UNCHANGED dvars
    /\ UNCHANGED wvars
    /\ UNCHANGED published
    /\ UNCHANGED bvars
    /\ UNCHANGED kvars
    /\ UNCHANGED lvars
    /\ UNCHANGED ovars
    /\ UNCHANGED yvars

\* ------------------------------------------- server process: shutdown
ShutStep(pc, cl, tm, code, ph, cs, sb) ==
    /\ shutPc' = pc
    /\ closes' = cl
    /\ timerSet' = tm
    /\ exitCode' = code
    /\ phase' = ph
    /\ conns' = cs
    /\ subs' = sb
    /\ UNCHANGED <<srvClock, documents, sent, srvOp, nSrv>>
    /\ UNCHANGED <<storageConnected, redisConnected, bootOp, srvLimit>>
    /\ UNCHANGED svars
    /\ UNCHANGED dvars
    /\ UNCHANGED published
    /\ UNCHANGED pgvars
    /\ UNCHANGED kvars
    /\ UNCHANGED lvars
    /\ UNCHANGED ovars
    /\ UNCHANGED ivars
    /\ UNCHANGED rvars
    /\ UNCHANGED pvars

\* SIGTERM or SIGINT: shutdown() runs up to `await wsServer.close()`, which
\* closes every connection, disposes the coordinator and calls wss.close;
\* wsDone and httpDone say whether the two close callbacks are ever called
Signal(wsDone, httpDone) ==
    /\ phase = "running"
    /\ shutPc = "idle"
    /\ ShutStep("closingWs", [ws |-> wsDone, http |-> httpDone], FALSE,
                NoExit, "stopping",
                [c \in ConnIds |->
                    IF conns[c].state \in OpenStates THEN ClosedConn
                    ELSE conns[c]],
                [d \in DocIds |-> {}])

\* wss.close calls back: shutdown() goes on with server.close(callback) and
\* registers the 10-second timer
WsClosed ==
    /\ shutPc = "closingWs"
    /\ closes.ws
    /\ ShutStep("closingHttp", closes, TRUE, exitCode, phase, conns, subs)

\* server.close calls back: process.exit(0)
HttpClosed ==
    /\ shutPc = "closingHttp"
    /\ closes.http
    /\ ShutStep("exited", closes, timerSet, 0, "exited", conns, subs)

\* the timer fires: process.exit(1)
ForceExit ==
    /\ timerSet
    /\ shutPc # "exited"
    /\ ShutStep("exited", closes, timerSet, 1, "exited", conns, subs)

\* ------------------------------------------------------------------ SyncKit
\* concurrent init() calls
KitCalls == {"i1", "i2"}

\* SyncDocument instances, in order of construction
Instances == 1..MaxKitOps

KitOp(name, id, err, ret, hit) ==
    [op |-> name, id |-> id, err |-> err, ret |-> ret, cached |-> hit]

InitSyncKit ==
    /\ initialized = FALSE
    /\ kitInits = [k \in KitCalls |-> "idle"]
    /\ kitDocuments = [id \in DocIds |-> 0]
    /\ kitStore = {}
    /\ nInst = 0
    /\ initStarted = [i \in Instances |-> 0]
    /\ disposed = {}
    /\ kitOp = KitOp("new", "-", "-", 0, FALSE)
    /\ kitFailures = 0
    /\ nKit = 0

\* the common tail of every step of SyncKit
KitStep(ini, calls, cache, store, n, started, disp, op, fails) ==
    /\ nKit < MaxKitOps
    /\ nKit' = nKit + 1
    /\ initialized' = ini
    /\ kitInits' = calls
    /\ kitDocuments' = cache
    /\ kitStore' = store
    /\ nInst' = n
    /\ initStarted' = started
    /\ disposed' = disp
    /\ kitOp' = op
    /\ kitFailures' = fails
    /\ UNCHANGED svars
    /\ UNCHANGED dvars
    /\ UNCHANGED wvars
    /\ UNCHANGED published
    /\ UNCHANGED pgvars
    /\ UNCHANGED bvars
    /\ UNCHANGED lvars
    /\ UNCHANGED ovars
    /\ UNCHANGED yvars

\* a step that changes nothing but the history
KitThrow(op) ==
    KitStep(initialized, kitInits, kitDocuments, kitStore, nInst, initStarted,
            disposed, op, kitFailures)

\* init(): returns at once when initialized, else awaits initWASM()
KitInit(k) ==
    /\ kitInits[k] = "idle"
    /\ IF initialized
       THEN KitThrow(KitOp("init", "-", "-", 0, TRUE))
       ELSE KitStep(initialized, [kitInits EXCEPT ![k] = "wasm"], kitDocuments,
                    kitStore, nInst, initStarted, disposed,
                    KitOp("init-start", "-", "-", 0, FALSE), kitFailures)

\* init(): initWASM() settles; on success awaits storage.init()
KitInitWasm(k, ok) ==
    /\ kitInits[k] = "wasm"
    /\ IF ok
       THEN KitStep(initialized, [kitInits EXCEPT ![k] = "storage"],
                    kitDocuments, kitStore, nInst, initStarted, disposed,
                    KitOp("init-wasm", "-", "-", 0, FALSE), kitFailures)
       ELSE KitStep(initialized, [kitInits EXCEPT ![k] = "idle"],
                    kitDocuments, kitStore, nInst, initStarted, disposed,
                    KitOp("init", "-", "INIT_ERROR", 0, FALSE),
                    kitFailures + 1)

\* init(): storage.init() settles; on success initialized = true
KitInitStorage(k, ok) ==
    /\ kitInits[k] = "storage"
    /\ IF ok
       THEN KitStep(TRUE, [kitInits EXCEPT ![k] = "idle"],
                    kitDocuments, kitStore, nInst, initStarted, disposed,
                    KitOp("init", "-", "-", 0, FALSE), kitFailures)
       ELSE KitStep(initialized, [kitInits EXCEPT ![k] = "idle"],
                    kitDocuments, kitStore, nInst, initStarted, disposed,
                    KitOp("init", "-", "INIT_ERROR", 0, FALSE),
                    kitFailures + 1)

\* document(id) without the cache
KitDocumentFresh(id) ==
    IF ~initialized
    THEN KitThrow(KitOp("document", id, "NOT_INITIALIZED", 0, FALSE))
    ELSE KitStep(initialized, kitInits,
                 [kitDocuments EXCEPT ![id] = nInst + 1], kitStore,
                 nInst + 1, [initStarted EXCEPT ![nInst + 1] = @ + 1],
                 disposed, KitOp("document", id, "-", nInst + 1, FALSE),
                 kitFailures)

\* document(id) without the initialized check
KitDocumentUnguarded(id) ==
    IF kitDocuments[id] # 0
    THEN KitThrow(KitOp("document", id, "-", kitDocuments[id], TRUE))
    ELSE KitStep(initialized, kitInits,
                 [kitDocuments EXCEPT ![id] = nInst + 1], kitStore,
                 nInst + 1, [initStarted EXCEPT ![nInst + 1] = @ + 1],
                 disposed, KitOp("document", id, "-", nInst + 1, FALSE),
                 kitFailures)

\* document(id): the cached instance, else a new one whose init() is started
KitDocument(id) ==
    IF ~initialized
    THEN KitThrow(KitOp("document", id, "NOT_INITIALIZED", 0, FALSE))
    ELSE IF kitDocuments[id] # 0
    THEN KitThrow(KitOp("document", id, "-", kitDocuments[id], TRUE))
    ELSE KitStep(initialized, kitInits,
                 [kitDocuments EXCEPT ![id] = nInst + 1], kitStore,
                 nInst + 1, [initStarted EXCEPT ![nInst + 1] = @ + 1],
                 disposed, KitOp("document", id, "-", nInst + 1, FALSE),
                 kitFailures)

\* listDocuments(): storage.list()
KitListDocuments ==
    IF ~initialized
    THEN KitThrow(KitOp("list", "-", "NOT_INITIALIZED", 0, FALSE))
    ELSE KitThrow(KitOp("list", "-", "-", 0, FALSE))

\* deleteDocument(id): dispose and uncache the instance, then storage.delete
KitDeleteDocument(id, ok) ==
    IF ~initialized
    THEN KitThrow(KitOp("delete", id, "NOT_INITIALIZED", 0, FALSE))
    ELSE KitStep(initialized, kitInits, [kitDocuments EXCEPT ![id] = 0],
                 IF ok THEN kitStore \ {id} ELSE kitStore, nInst, initStarted,
                 IF kitDocuments[id] # 0
                 THEN disposed \cup {kitDocuments[id]} ELSE disposed,
                 KitOp("delete", id, IF ok THEN "-" ELSE "STORAGE", 0, FALSE),
                 kitFailures)

\* clearAll(): dispose every cached instance, clear the cache, storage.clear
KitClearAll(ok) ==
    IF ~initialized
    THEN KitThrow(KitOp("clear", "-", "NOT_INITIALIZED", 0, FALSE))
    ELSE KitStep(initialized, kitInits, [id \in DocIds |-> 0],
                 IF ok THEN {} ELSE kitStore, nInst, initStarted,
                 disposed \cup ({kitDocuments[id] : id \in DocIds} \ {0}),
                 KitOp("clear", "-", IF ok THEN "-" ELSE "STORAGE", 0, FALSE),
                 kitFailures)

\* a cached document persists itself: storage.set(id, stored)
KitPersist(id) ==
    /\ kitDocuments[id] # 0
    /\ KitStep(initialized, kitInits, kitDocuments, kitStore \cup {id}, nInst,
               initStarted, disposed, KitOp("persist", id, "-", 0, FALSE),
               kitFailures)

NextKit ==
    \/ \E k \in KitCalls : KitInit(k)
    \/ \E k \in KitCalls, ok \in BOOLEAN : KitInitWasm(k, ok)
    \/ \E k \in KitCalls, ok \in BOOLEAN : KitInitStorage(k, ok)
    \/ \E id \in DocIds : KitDocument(id)
    \/ KitListDocuments
    \/ \E id \in DocIds, ok \in BOOLEAN : KitDeleteDocument(id, ok)
    \/ \E ok \in BOOLEAN : KitClearAll(ok)
    \/ \E id \in DocIds : KitPersist(id)

\* -------------------------------------------------------------- wasm-loader
\* concurrent initWASM() calls
WasmCallers == {"w1", "w2", "w3"}

\* initialization promises, in order of creation
Attempts == 1..MaxWasmOps

\* the body of the initialization: the placeholder throws before any await;
\* a linked module is imported and its import resolves or rejects later
Bodies == {"throws", "imports"}

IdleCaller == [pc |-> "idle", p |-> 0, starter |-> FALSE]

WasmOp(name, k, p, started) ==
    [op |-> name, k |-> k, p |-> p, started |-> started]

InitWasmLoader ==
    /\ wasmModule = 0
    /\ initPromise = 0
    /\ promises = [p \in Attempts |-> "none"]
    /\ callers = [k \in WasmCallers |-> IdleCaller]
    /\ wasmOp = WasmOp("load", "-", 0, FALSE)
    /\ nWasm = 0

\* the common tail of every step of the loader
WasmStep(mod, ip, ps, cs, op) ==
    /\ nWasm < MaxWasmOps
    /\ nWasm' = nWasm + 1
    /\ wasmModule' = mod
    /\ initPromise' = ip
    /\ promises' = ps
    /\ callers' = cs
    /\ wasmOp' = op
    /\ UNCHANGED svars
    /\ UNCHANGED dvars
    /\ UNCHANGED wvars
    /\ UNCHANGED published
    /\ UNCHANGED pgvars
    /\ UNCHANGED bvars
    /\ UNCHANGED kvars
    /\ UNCHANGED ovars
    /\ UNCHANGED yvars

\* the next promise
NewPromise == 1 + Cardinality({p \in Attempts : promises[p] # "none"})

\* initWASM(): the cached module; else the promise in initPromise; else a new
\* initialization, whose promise is stored in initPromise after the body ran
\* to its first await (a throw before that resets initPromise first)
InitWASM(k, body) ==
    /\ callers[k].pc = "idle"
    /\ IF wasmModule # 0
       THEN WasmStep(wasmModule, initPromise, promises, callers,
                     WasmOp("cached", k, wasmModule, FALSE))
       ELSE IF initPromise # 0
       THEN WasmStep(wasmModule, initPromise, promises,
                     [callers EXCEPT ![k] =
                         [pc |-> "await", p |-> initPromise,
                          starter |-> FALSE]],
                     WasmOp("shared", k, initPromise, FALSE))
       ELSE LET p == NewPromise IN
            WasmStep(wasmModule, p,
                     [promises EXCEPT ![p] = IF body = "throws"
                                             THEN "rejected" ELSE "pending"],
                     [callers EXCEPT ![k] =
                         [pc |-> "await", p |-> p, starter |-> TRUE]],
                     WasmOp("start", k, p, TRUE))

\* the import of a pending initialization settles; a failure resets
\* initPromise
Settle(p, ok) ==
    /\ promises[p] = "pending"
    /\ WasmStep(wasmModule, IF ok THEN initPromise ELSE 0,
                [promises EXCEPT ![p] = IF ok THEN "resolved" ELSE "rejected"],
                callers, WasmOp("settle", "-", p, FALSE))

\* the awaited promise has settled: the call that started it caches the
\* module; every call returns the module or throws
Resume(k) ==
    /\ callers[k].pc = "await"
    /\ promises[callers[k].p] \in {"resolved", "rejected"}
    /\ WasmStep(IF callers[k].starter /\ promises[callers[k].p] = "resolved"
                THEN callers[k].p ELSE wasmModule,
                initPromise, promises, [callers EXCEPT ![k] = IdleCaller],
                WasmOp(IF promises[callers[k].p] = "resolved"
                       THEN "return" ELSE "throw", k, callers[k].p, FALSE))

\* resetWASM()
ResetWASM ==
    /\ nWasm < MaxWasmOps
    /\ WasmStep(0, 0, promises, callers, WasmOp("reset", "-", 0, FALSE))

NextWasm ==
    \/ \E k \in WasmCallers, body \in Bodies : InitWASM(k, body)
    \/ \E p \in Attempts, ok \in BOOLEAN : Settle(p, ok)
    \/ \E k \in WasmCallers : Resume(k)
    \/ ResetWASM

\* ------------------------------------- SyncDocument: subscribers, persist
\* subscription callbacks
Callbacks == {"f", "g"}

\* the operations that end with persist() and notifySubscribers()
WriteKinds == {"set", "update", "delete", "merge"}

\* local operations, in order of their calls
WriteIds == 1..MaxObsOps

NoWrite == [state |-> "none", kind |-> "-", snapshot |-> {}]

NotifyOp(name, o, f, called, seen) ==
    [op |-> name, o |-> o, f |-> f, called |-> called, data |-> seen,
     threw |-> {}]

InitObserved ==
    /\ subscribers = {}
    /\ docReady = FALSE
    /\ writes = {}
    /\ persisted = {}
    /\ inFlight = [o \in WriteIds |-> NoWrite]
    /\ active = {}
    /\ handles = {}
    /\ notifyOp = NotifyOp("new", 0, "-", {}, {})
    /\ nObs = 0

\* the common tail of every step of the document
ObsStep(sb, ready, wr, st, fl, act, hd, op) ==
    /\ nObs < MaxObsOps
    /\ nObs' = nObs + 1
    /\ subscribers' = sb
    /\ docReady' = ready
    /\ writes' = wr
    /\ persisted' = st
    /\ inFlight' = fl
    /\ active' = act
    /\ handles' = hd
    /\ notifyOp' = op
    /\ UNCHANGED svars
    /\ UNCHANGED dvars
    /\ UNCHANGED wvars
    /\ UNCHANGED published
    /\ UNCHANGED pgvars
    /\ UNCHANGED bvars
    /\ UNCHANGED kvars
    /\ UNCHANGED lvars
    /\ UNCHANGED yvars

\* init(): a new WasmDocument, loaded from the stored snapshot
ObsInit ==
    /\ nObs < MaxObsOps
    /\ ObsStep(subscribers, TRUE, persisted, persisted, inFlight, active,
               handles, NotifyOp("init", 0, "-", {}, {}))

\* the next operation
NewWrite == 1 + Cardinality({o \in WriteIds : inFlight[o].state # "none"})

\* set/update/delete/merge up to `await this.persist()`: the write is in the
\* WasmDocument and in this.data, the snapshot is handed to storage.set
ObsWrite(kind) ==
    IF ~docReady
    THEN ObsStep(subscribers, docReady, writes, persisted, inFlight, active,
                 handles, NotifyOp("throw", 0, "-", {}, {}))
    ELSE LET o == NewWrite IN
         ObsStep(subscribers, docReady, writes \cup {o}, persisted,
                 [inFlight EXCEPT ![o] =
                     [state |-> "persisting", kind |-> kind,
                      snapshot |-> writes \cup {o}]],
                 active, handles, NotifyOp("write", o, "-", {}, {}))

\* the oldest storage.set in flight
Oldest(o) ==
    /\ inFlight[o].state = "persisting"
    /\ \A x \in WriteIds : inFlight[x].state = "persisting" => o <= x

\* a notification that stops at the first callback that throws and lets
\* the error escape
NotifyFirstThrow(sb, T) ==
    IF sb \cap T = {}
    THEN [called |-> sb, state |-> "done"]
    ELSE [called |-> {CHOOSE f \in sb \cap T : TRUE}, state |-> "failed"]

\* notifySubscribers(): every callback is called inside its own try/catch;
\* T are the callbacks that throw
NotifySubscribers(sb, T) == [called |-> sb, state |-> "done"]

\* storage.set settles: on success the snapshot is stored and the operation
\* goes on to notifySubscribers() with this.get(); on failure it rejects
ObsPersisted(o, ok, T) ==
    /\ Oldest(o)
    /\ T \subseteq subscribers
    /\ ok \/ T = {}
    /\ IF ok
       THEN LET n == NotifySubscribers(subscribers, T) IN
            ObsStep(subscribers, docReady, writes, inFlight[o].snapshot,
                    [inFlight EXCEPT ![o].state = n.state], active, handles,
                    [NotifyOp("completed", o, "-", n.called, writes)
                        EXCEPT !.threw = T \cap n.called])
       ELSE ObsStep(subscribers, docReady, writes, persisted,
                    [inFlight EXCEPT ![o].state = "failed"], active, handles,
                    NotifyOp("rejected", o, "-", {}, {}))

\* subscribe(callback): add, call at once with this.get()
ObsSubscribe(f) ==
    /\ nObs < MaxObsOps
    /\ ObsStep(subscribers \cup {f}, docReady, writes, persisted, inFlight,
               active \cup {f}, handles \cup {f},
               NotifyOp("subscribe", 0, f, {f}, writes))

\* a function returned by subscribe(f) is called
ObsUnsubscribe(f) ==
    /\ f \in handles
    /\ ObsStep(subscribers \ {f}, docReady, writes, persisted, inFlight,
               active \ {f}, handles, NotifyOp("unsubscribe", 0, f, {}, {}))

\* dispose() that keeps the subscribers
ObsDisposeKeep ==
    /\ nObs < MaxObsOps
    /\ ObsStep(subscribers, FALSE, writes, persisted, inFlight, {}, handles,
               NotifyOp("dispose", 0, "-", {}, {}))

\* dispose(): clear the subscribers, free the WasmDocument
ObsDispose ==
    /\ nObs < MaxObsOps
    /\ ObsStep({}, FALSE, writes, persisted, inFlight, {}, handles,
               NotifyOp("dispose", 0, "-", {}, {}))

NextObs ==
    \/ ObsInit
    \/ \E kind \in WriteKinds : ObsWrite(kind)
    \/ \E o \in WriteIds, ok \in BOOLEAN, T \in SUBSET Callbacks :
          ObsPersisted(o, ok, T)
    \/ \E f \in Callbacks : ObsSubscribe(f)
    \/ \E f \in Callbacks : ObsUnsubscribe(f)
    \/ ObsDispose

\* ---------------------------------------------------------------------
\* RedisPubSub: channel subscriptions (storage/redis.ts)

MaxRedisOps == 6

Channels == {DocumentChannel(d) : d \in DocIds}
Handlers == {"h1", "h2"}

\* this.handlers.get(channel): undefined, or the Set of handlers
NoHandlers == [has |-> FALSE, set |-> {}]
HandlerSet(hs) == [has |-> TRUE, set |-> hs]

RedisOp(kind, ch, h, result) ==
    [kind |-> kind, channel |-> ch, handler |-> h, result |-> result]

InitRedis ==
    /\ handlers = [ch \in Channels |-> NoHandlers]
    /\ subscribed = {}
    /\ redisCommands = <<>>
    /\ redisOp = RedisOp("init", "-", "-", "-")
    /\ nRedis = 0

RedisStep(hm, sub, cmds, op) ==
    /\ nRedis < MaxRedisOps
    /\ nRedis' = nRedis + 1
    /\ handlers' = hm
    /\ subscribed' = sub
    /\ redisCommands' = cmds
    /\ redisOp' = op
    /\ UNCHANGED basevars
    /\ UNCHANGED pvars
    /\ UNCHANGED hvars

\* subscribe(channel, handler) up to its first await: the first handler of
\* a channel creates the map entry and sends SUBSCRIBE, a later one is
\* added to the existing entry and the call resolves
RedisSubscribe(ch, h) ==
    IF ~handlers[ch].has
    THEN RedisStep([handlers EXCEPT ![ch] = HandlerSet({})], subscribed,
                   Append(redisCommands,
                          [kind |-> "subscribe", channel |-> ch,
                           handler |-> h]),
                   RedisOp("subscribe", ch, h, "pending"))
    ELSE RedisStep([handlers EXCEPT ![ch] = HandlerSet(@.set \cup {h})],
                   subscribed, redisCommands,
                   RedisOp("subscribe", ch, h, "resolved"))

\* unsubscribe(channel) up to its await: the entry is deleted and
\* UNSUBSCRIBE is sent
RedisUnsubscribe(ch) ==
    /\ nRedis < MaxRedisOps
    /\ RedisStep([handlers EXCEPT ![ch] = NoHandlers], subscribed,
                 Append(redisCommands,
                        [kind |-> "unsubscribe", channel |-> ch,
                         handler |-> "-"]),
                 RedisOp("unsubscribe", ch, "-", "pending"))

\* Redis answers the oldest command. A SUBSCRIBE that succeeded puts the
\* connection on the channel and the call adds its handler to the entry
\* (a TypeError and a rejection when the entry was deleted meanwhile); a
\* failed command changes nothing and the call rejects
RedisAnswer(ok) ==
    /\ redisCommands # <<>>
    /\ LET c == Head(redisCommands)
       IN IF c.kind = "subscribe"
          THEN RedisStep(
                  IF ok /\ handlers[c.channel].has
                  THEN [handlers EXCEPT ![c.channel] =
                           HandlerSet(@.set \cup {c.handler})]
                  ELSE handlers,
                  IF ok THEN subscribed \cup {c.channel} ELSE subscribed,
                  Tail(redisCommands),
                  RedisOp("subscribe", c.channel, c.handler,
                          IF ok /\ handlers[c.channel].has
                          THEN "resolved" ELSE "rejected"))
          ELSE RedisStep(handlers,
                  IF ok THEN subscribed \ {c.channel} ELSE subscribed,
                  Tail(redisCommands),
                  RedisOp("unsubscribe", c.channel, "-",
                          IF ok THEN "resolved" ELSE "rejected"))

NextRedis ==
    \/ \E ch \in Channels, h \in Handlers : RedisSubscribe(ch, h)
    \/ \E ch \in Channels : RedisUnsubscribe(ch)
    \/ \E ok \in BOOLEAN : RedisAnswer(ok)

\* no write of a path yet
NoWritten == [value |-> "-", clk |-> 0, o |-> 0, state |-> "none"]

\* SyncDocument.init() at position pc for replica A, finished for the others
InitAt(pc) ==
    /\ initPc = [r \in Clients |-> IF r = "A" THEN pc ELSE "done"]
    /\ fetched = [r \in Clients |-> NoStored]
    /\ queue = <<>>
    /\ written = [r \in Clients |-> [p \in Paths |-> NoWritten]]
    /\ overlap = [overlapped |-> {}, rejected |-> {}]
    /\ nInit = 0

InitLater == InitAt("done")

InitComponents ==
    /\ InitPubSub /\ InitPostgres /\ InitSyncKit /\ InitWasmLoader
    /\ InitObserved /\ InitRedis /\ InitProcess

InitExtra == InitComponents /\ InitBoot("running", MaxSrvOps) /\ InitLater

Init ==
    InitDocuments /\ InitDeltas /\ InitServer /\ InitExtra /\ limit = MaxOps

\* the common tail of every handler: no handler of the server passes
\* anything to the coordinator's document state
Handled(cs, sb, vc, out, op) ==
    /\ phase = "running"
    /\ nSrv < srvLimit
    /\ nSrv' = nSrv + 1
    /\ conns' = cs
    /\ subs' = sb
    /\ srvClock' = vc
    /\ documents' = documents
    /\ sent' = out
    /\ srvOp' = op
    /\ UNCHANGED svars
    /\ UNCHANGED dvars
    /\ UNCHANGED xvars

\* handleConnection: a new socket gets the next connection id, unless the
\* registry is full and the socket is closed at once
HandleConnection(c) ==
    /\ conns[c].state = "None"
    /\ \A i, j \in 1..Len(ConnOrder) :
          (i < j /\ ConnOrder[j] = c) => conns[ConnOrder[i]].state # "None"
    /\ IF Cardinality(Registry) >= wsMaxConnections
       THEN Handled(conns, subs, srvClock, {}, SrvOp("rejected", "-", "-", NoMsg))
       ELSE Handled([conns EXCEPT ![c] = NewConn], subs, srvClock, {},
                    SrvOp("connection", c, "-", NoMsg))

\* handleAuth, its three branches and the catch block
HandleAuth(c, m) ==
    /\ conns[c].state \in OpenStates
    /\ LET ok(userId, payload) ==
               Handled([conns EXCEPT ![c] = [state |-> "Authenticated",
                                             tokenPayload |-> payload]],
                       subs, srvClock,
                       {Send(c, AuthSuccess(userId, payload.permissions), TRUE)},
                       SrvOp("auth", c, "-", m))
           failed ==
               Handled([conns EXCEPT ![c] = ClosedConn], subs, srvClock,
                       {Send(c, AuthError, TRUE)}, SrvOp("auth", c, "-", m))
       IN IF m.token # ""
          THEN IF VerifyToken(m.token) = NoPayload
               THEN failed
               ELSE ok(VerifyToken(m.token).userId, VerifyToken(m.token))
          ELSE IF m.apiKey # ""
          THEN Handled(conns, subs, srvClock,
                       {Send(c, ErrorMsg("API key authentication not yet implemented",
                                         "-"), TRUE)},
                       SrvOp("auth", c, "-", m))
          ELSE ok("anonymous", AnonymousPayload)

NotAuthenticated(c) ==
    conns[c].state # "Authenticated" \/ conns[c].tokenPayload = NoPayload

\* handleSyncRequest
HandleSyncRequest(c, m) ==
    /\ conns[c].state \in OpenStates
    /\ LET d == m.documentId
       IN IF NotAuthenticated(c)
          THEN Handled(conns, subs, srvClock,
                       {Send(c, ErrorMsg("Not authenticated", "-"), TRUE)},
                       SrvOp("sync", c, d, m))
          ELSE IF ~CanReadDocument(conns[c].tokenPayload, d)
          THEN Handled(conns, subs, srvClock,
                       {Send(c, ErrorMsg("Permission denied", d), TRUE)},
                       SrvOp("sync", c, d, m))
          ELSE Handled(conns,
                       [subs EXCEPT ![d] = @ \cup {c}],
                       IF m.hasClock
                       THEN [srvClock EXCEPT ![d] = ClockMerge(@, m.vectorClock)]
                       ELSE srvClock,
                       {Send(c, SyncResponse(d, documents[d]), TRUE)},
                       SrvOp("sync", c, d, m))

\* broadcast that does not skip the sender
BroadcastAll(d, msg, exclude, fail) ==
    {Send(k, msg, k \notin fail) :
        k \in {x \in subs[d] :
                 x \in Registry /\ conns[x].state = "Authenticated"}}

\* broadcast: one send per subscriber that is in the registry and
\* authenticated, the sender excluded; a failed send changes nothing
Broadcast(d, msg, exclude, fail) ==
    {Send(k, msg, k \notin fail) :
        k \in {x \in subs[d] \ {exclude} :
                 x \in Registry /\ conns[x].state = "Authenticated"}}

\* handleDelta without its permission check
HandleDeltaUnchecked(c, m, fail) ==
    /\ conns[c].state \in OpenStates
    /\ fail \subseteq subs[m.documentId] \ {c}
    /\ LET d == m.documentId
       IN IF NotAuthenticated(c)
          THEN Handled(conns, subs, srvClock,
                       {Send(c, ErrorMsg("Not authenticated", "-"), TRUE)},
                       SrvOp("delta", c, d, m))
          ELSE Handled(conns, subs,
                       [srvClock EXCEPT ![d] = ClockMerge(@, m.vectorClock)],
                       Broadcast(d, m, c, fail),
                       SrvOp("delta", c, d, m))

\* handleDelta: the delta itself is not applied; the vector clock is merged
\* and the message is broadcast
HandleDelta(c, m, fail) ==
    /\ conns[c].state \in OpenStates
    /\ fail \subseteq subs[m.documentId] \ {c}
    /\ LET d == m.documentId
       IN IF NotAuthenticated(c)
          THEN Handled(conns, subs, srvClock,
                       {Send(c, ErrorMsg("Not authenticated", "-"), TRUE)},
                       SrvOp("delta", c, d, m))
          ELSE IF ~CanWriteDocument(conns[c].tokenPayload, d)
          THEN Handled(conns, subs, srvClock,
                       {Send(c, ErrorMsg("Permission denied", d), TRUE)},
                       SrvOp("delta", c, d, m))
          ELSE Handled(conns, subs,
                       [srvClock EXCEPT ![d] = ClockMerge(@, m.vectorClock)],
                       Broadcast(d, m, c, fail),
                       SrvOp("delta", c, d, m))

\* the socket closes: the connection leaves the registry; handleDisconnect
\* itself only logs
HandleDisconnect(c) ==
    /\ conns[c].state \in OpenStates
    /\ Handled([conns EXCEPT ![c] = ClosedConn], subs, srvClock, {},
               SrvOp("disconnect", c, "-", NoMsg))

NextServer ==
    \/ \E c \in ConnIds : HandleConnection(c)
    \/ \E c \in ConnIds, m \in AuthMsgs : HandleAuth(c, m)
    \/ \E c \in ConnIds, m \in SyncRequestMsgs : HandleSyncRequest(c, m)
    \/ \E c \in ConnIds, m \in DeltaMsgs, fail \in SUBSET ConnIds :
          HandleDelta(c, m, fail)
    \/ \E c \in ConnIds : HandleDisconnect(c)

SpecServer == Init /\ [][NextServer]_vars

InitStartup ==
    /\ InitDocuments /\ InitDeltas /\ InitServer /\ limit = MaxOps
    /\ InitComponents /\ InitBoot("boot", MaxBootOps) /\ InitLater

NextStartup ==
    \/ \E dbUrl \in Urls, redisUrl \in Urls, dbOk \in BOOLEAN,
          redisOk \in BOOLEAN : Startup(dbUrl, dbOk, redisUrl, redisOk)
    \/ \E c \in ConnIds : HandleConnection(c)
    \/ \E c \in ConnIds, m \in AuthMsgs : HandleAuth(c, m)
    \/ \E c \in ConnIds, m \in SyncRequestMsgs : HandleSyncRequest(c, m)
    \/ \E c \in ConnIds, m \in DeltaMsgs, fail \in SUBSET ConnIds :
          HandleDelta(c, m, fail)

SpecStartup == InitStartup /\ [][NextStartup]_vars

\* raw incoming frames that are no well-formed message of a handled type
RawKinds == {"invalid-json", "missing-field", "unknown-type"}

\* parseMessage: null for text that is not JSON or lacks type, id or
\* timestamp; otherwise the parsed message
ParseMessage(raw) ==
    IF raw \in {"invalid-json", "missing-field"} THEN NoMsg
    ELSE [type |-> "UNKNOWN"]

\* a raw frame arrives: a frame that does not parse is answered by the
\* connection with a bad_request error; a parsed message goes to
\* handleMessage, whose default branch only logs
HandleRaw(c, raw) ==
    /\ conns[c].state \in OpenStates
    /\ IF ParseMessage(raw) = NoMsg
       THEN Handled(conns, subs, srvClock,
                    {Send(c, ErrorMsg("bad_request", "-"), TRUE)},
                    SrvOp("raw", c, "-", NoMsg))
       ELSE Handled(conns, subs, srvClock, {},
                    SrvOp("raw", c, "-", ParseMessage(raw)))

NextRaw ==
    \/ \E c \in ConnIds : HandleConnection(c)
    \/ \E c \in ConnIds, m \in AuthMsgs : HandleAuth(c, m)
    \/ \E c \in ConnIds, m \in SyncRequestMsgs : HandleSyncRequest(c, m)
    \/ \E c \in ConnIds, raw \in RawKinds : HandleRaw(c, raw)

SpecRaw == Init /\ [][NextRaw]_vars

\* a server whose persistence already holds document states: the coordinator
\* creates a document from persistence when it is first subscribed to
PersistedDocs ==
    {NoDelta,
     [NoDelta EXCEPT !["p"] = Reg("x", 1, "A")],
     [NoDelta EXCEPT !["p"] = Reg("x", 1, "A"), !["q"] = Reg("y", 2, "A")]}

InitCatchUp ==
    /\ InitDocuments /\ InitDeltas /\ InitExtra /\ limit = MaxOps
    /\ \E pd \in PersistedDocs :
          InitCoordinator([d \in DocIds |-> IF d = "d1" THEN pd ELSE NoDelta])

NextCatchUp ==
    \/ \E c \in ConnIds : HandleConnection(c)
    \/ \E c \in ConnIds, m \in AuthMsgs : HandleAuth(c, m)
    \/ \E c \in ConnIds, m \in SyncRequestMsgs : HandleSyncRequest(c, m)

SpecCatchUp == InitCatchUp /\ [][NextCatchUp]_vars


\* persist: the snapshot holds the cached data and a version map with the
\* single entry clientId -> clock
Persisted(r, d, clk) ==
    [present |-> TRUE, data |-> d,
     version |-> [c \in Clients |-> IF c = r THEN clk ELSE 0]]

\* a local write at s makes every other replica lack s's writes again
AfterWrite(s) ==
    [r \in Clients |-> IF r = s THEN merged[r] ELSE merged[r] \ {s}]

\* the stamp clock a local write gets: the incremented local counter
NextClock(r) == clock[r] + 1

\* the common tail of every mutation: updateLocalState, then persist
Finish(r, doc, clk, m, op, t) ==
    /\ wasmDoc' = [wasmDoc EXCEPT ![r] = doc]
    /\ clock' = [clock EXCEPT ![r] = clk]
    /\ data' = [data EXCEPT ![r] = ToJSON(doc)]
    /\ stored' = [stored EXCEPT ![r] = Persisted(r, ToJSON(doc), clk)]
    /\ merged' = m
    /\ lastOp' = op
    /\ tomb' = t
    /\ nOps < limit
    /\ nOps' = nOps + 1
    /\ limit' = limit
    /\ UNCHANGED dvars
    /\ UNCHANGED wvars
    /\ UNCHANGED xvars

Set(r, p, v) ==
    /\ clock[r] < MaxClock
    /\ Finish(r, WasmSetField(wasmDoc[r], p, v, NextClock(r), r), NextClock(r),
              AfterWrite(r), Op("set", r, r, p, v), tomb \ {p})

\* update: one tick and one setField per entry, in iteration order
RECURSIVE UpdateDocBatch(_, _, _, _)
UpdateDocBatch(doc, clk, id, upd) ==
    IF upd = <<>> THEN doc
    ELSE UpdateDocBatch(WasmSetField(doc, upd[1][1], upd[1][2], clk + 1, id),
                        clk, id, Tail(upd))
RECURSIVE UpdateDoc(_, _, _, _)
UpdateDoc(doc, clk, id, upd) ==
    IF upd = <<>> THEN doc
    ELSE UpdateDoc(WasmSetField(doc, upd[1][1], upd[1][2], clk + 1, id),
                   clk + 1, id, Tail(upd))

Updates ==
    {<<>>}
    \cup {<<<<p, v>>>> : p \in Paths, v \in Values}
    \cup {<<<<p1, v1>>, <<p2, v2>>>> :
            p1 \in Paths, v1 \in Values, p2 \in Paths, v2 \in Values}


Update(r, upd) ==
    /\ clock[r] + Len(upd) <= MaxClock
    /\ \A i, j \in 1..Len(upd) : i # j => upd[i][1] # upd[j][1]
    /\ Finish(r, UpdateDoc(wasmDoc[r], clock[r], r, upd), clock[r] + Len(upd),
              AfterWrite(r), [Op("update", r, r, "-", "-") EXCEPT !.upd = upd],
              tomb \ {upd[i][1] : i \in 1..Len(upd)})

\* every replica holds the same register at p: a delete made now comes after
\* every write to p
KnownEverywhere(p) ==
    /\ wasmDoc[CHOOSE r \in Clients : TRUE].fields[p] # NoReg
    /\ \A r, s \in Clients : wasmDoc[r].fields[p] = wasmDoc[s].fields[p]

\* delete: deleteField(path) only; the local counter is not touched
Delete(r, p) ==
    /\ p \in Paths
    /\ Finish(r, WasmDeleteField(wasmDoc[r], p), clock[r],
              AfterWrite(r), Op("delete", r, r, p, "-"),
              IF KnownEverywhere(p)
                 /\ StampGreater(Reg(Tombstone, NextClock(r), r),
                                 wasmDoc[r].fields[p])
              THEN tomb \cup {p} ELSE tomb \ {p})

MergeSkip(r, s) ==
    /\ r # s
    /\ Finish(r, wasmDoc[r], clock[r],
              [merged EXCEPT ![r] = @ \cup {s}], Op("merge", r, s, "-", "-"), tomb)
Merge(r, s) ==
    /\ r # s
    /\ Finish(r, WasmMerge(wasmDoc[r], wasmDoc[s]), clock[r],
              [merged EXCEPT ![r] = @ \cup {s}], Op("merge", r, s, "-", "-"), tomb)

\* loadFromStored: every stored field is written again with the stamp
\* (version[clientId] || 0, clientId); the counter becomes the largest version
RECURSIVE LoadDoc(_, _, _, _)
LoadDoc(doc, ps, st, id) ==
    IF ps = {} THEN doc
    ELSE LET p == CHOOSE x \in ps : TRUE
         IN LoadDoc(IF st.data[p] = Undefined THEN doc
                    ELSE WasmSetField(doc, p, st.data[p], st.version[id], id),
                    ps \ {p}, st, id)

RECURSIVE SetMax(_)
SetMax(S) ==
    IF S = {} THEN 0
    ELSE LET x == CHOOSE y \in S : TRUE IN Max(x, SetMax(S \ {x}))

LoadedClock(st) == SetMax({st.version[c] : c \in Clients} \cup {0})

\* a new session: a new SyncDocument with the same id, clientId and storage,
\* then init()
Reload(r) ==
    LET doc == IF stored[r].present
               THEN LoadDoc(EmptyDoc, Paths, stored[r], r) ELSE EmptyDoc
        clk == IF stored[r].present THEN LoadedClock(stored[r]) ELSE 0
    IN /\ wasmDoc' = [wasmDoc EXCEPT ![r] = doc]
       /\ clock' = [clock EXCEPT ![r] = clk]
       /\ data' = [data EXCEPT ![r] = ToJSON(doc)]
       /\ lastOp' = Op("reload", r, r, "-", "-")
       /\ nOps < limit
       /\ nOps' = nOps + 1
       /\ limit' = limit
       /\ UNCHANGED <<stored, merged, tomb>>
       /\ UNCHANGED dvars
       /\ UNCHANGED wvars
       /\ UNCHANGED xvars

\* -------------------------------------- SyncDocument: init() against set()
\* what a previous session of A left in storage
SessionStores ==
    {NoStored,
     [present |-> TRUE,
      data |-> [p \in Paths |-> IF p = "p" THEN "x" ELSE Undefined],
      version |-> [c \in Clients |-> IF c = "A" THEN 1 ELSE 0]],
     [present |-> TRUE,
      data |-> [p \in Paths |-> IF p = "p" THEN "x" ELSE "y"],
      version |-> [c \in Clients |-> IF c = "A" THEN 2 ELSE 0]]}

\* SyncKit.document(id) has constructed A's document and called init(),
\* which awaits initWASM(); wasmDoc is still null
InitRace ==
    /\ clock = [r \in Clients |-> 0]
    /\ wasmDoc = [r \in Clients |-> EmptyDoc]
    /\ data = [r \in Clients |-> ToJSON(EmptyDoc)]
    /\ \E st \in SessionStores :
          stored = [r \in Clients |-> IF r = "A" THEN st ELSE NoStored]
    /\ merged = [r \in Clients |-> {r}]
    /\ lastOp = Op("init", "-", "-", "-", "-")
    /\ tomb = {}
    /\ nOps = 0
    /\ limit = MaxOps
    /\ InitDeltas /\ InitServer
    /\ InitComponents /\ InitBoot("running", MaxSrvOps)
    /\ InitAt("wasm")

\* the common tail of every step of init() and of the writes racing with it
RaceStep(r, doc, clk, st, pc, ft, qu, wr, ov) ==
    /\ nInit < MaxInitOps
    /\ nInit' = nInit + 1
    /\ wasmDoc' = [wasmDoc EXCEPT ![r] = doc]
    /\ clock' = [clock EXCEPT ![r] = clk]
    /\ data' = [data EXCEPT ![r] = ToJSON(doc)]
    /\ stored' = [stored EXCEPT ![r] = st]
    /\ initPc' = [initPc EXCEPT ![r] = pc]
    /\ fetched' = [fetched EXCEPT ![r] = ft]
    /\ queue' = qu
    /\ written' = [written EXCEPT ![r] = wr]
    /\ overlap' = ov
    /\ UNCHANGED zvars
    /\ UNCHANGED <<merged, lastOp, tomb, nOps, limit>>
    /\ UNCHANGED dvars
    /\ UNCHANGED wvars
    /\ UNCHANGED published
    /\ UNCHANGED pgvars
    /\ UNCHANGED bvars
    /\ UNCHANGED kvars
    /\ UNCHANGED lvars
    /\ UNCHANGED ovars

\* init(): initWASM() settles; on success the WasmDocument is created and
\* storage.get(id) is called, which will resolve to what is stored now
DocInitWasm(r, ok) ==
    /\ initPc[r] = "wasm"
    /\ IF ok
       THEN RaceStep(r, EmptyDoc, clock[r], stored[r], "get", stored[r],
                     queue, written[r], overlap)
       ELSE RaceStep(r, wasmDoc[r], clock[r], stored[r], "failed",
                     fetched[r], queue, written[r], overlap)

\* init(): storage.get settles; loadFromStored when something was stored,
\* then updateLocalState
DocInitLoaded(r) ==
    /\ initPc[r] = "get"
    /\ IF fetched[r].present
       THEN RaceStep(r, LoadDoc(wasmDoc[r], Paths, fetched[r], r),
                     LoadedClock(fetched[r]), stored[r], "done", fetched[r],
                     queue, written[r], overlap)
       ELSE RaceStep(r, wasmDoc[r], clock[r], stored[r], "done", fetched[r],
                     queue, written[r], overlap)

\* the next storage.set call
NewCall == 1 + nInit

\* a call of r starts while an earlier storage.set of r has not settled
Overlapping(r) ==
    [overlap EXCEPT !.overlapped =
        IF \E i \in 1..Len(queue) : queue[i].r = r THEN @ \cup {r} ELSE @]

\* a storage.set of r settles, resolved or rejected
Settling(r, ok) ==
    [overlap EXCEPT !.rejected = IF ok THEN @ ELSE @ \cup {r}]

\* persist(): the snapshot handed to storage.set
Snapshot(r, o, doc, clk) ==
    [r |-> r, o |-> o, snapshot |-> Persisted(r, ToJSON(doc), clk)]

\* set() up to `await this.persist()`: possible as soon as wasmDoc is set
DocSet(r, p, v) ==
    /\ initPc[r] \in {"get", "done"}
    /\ clock[r] < MaxClock
    /\ LET doc == WasmSetField(wasmDoc[r], p, v, NextClock(r), r)
           o   == NewCall
       IN RaceStep(r, doc, NextClock(r), stored[r], initPc[r], fetched[r],
                   Append(queue, Snapshot(r, o, doc, NextClock(r))),
                   [written[r] EXCEPT ![p] =
                       [value |-> v, clk |-> NextClock(r), o |-> o,
                        state |-> "pending"]],
                   Overlapping(r))

\* update() up to `await this.persist()`
DocUpdate(r, upd) ==
    /\ initPc[r] \in {"get", "done"}
    /\ upd # <<>>
    /\ clock[r] + Len(upd) <= MaxClock
    /\ \A i, j \in 1..Len(upd) : i # j => upd[i][1] # upd[j][1]
    /\ LET doc == UpdateDoc(wasmDoc[r], clock[r], r, upd)
           o   == NewCall
       IN RaceStep(r, doc, clock[r] + Len(upd), stored[r], initPc[r],
                   fetched[r],
                   Append(queue, Snapshot(r, o, doc, clock[r] + Len(upd))),
                   [p \in Paths |->
                       IF \E i \in 1..Len(upd) : upd[i][1] = p
                       THEN LET i == CHOOSE k \in 1..Len(upd) : upd[k][1] = p
                            IN [value |-> upd[i][2], clk |-> clock[r] + i,
                                o |-> o, state |-> "pending"]
                       ELSE written[r][p]],
                   Overlapping(r))

\* delete() up to `await this.persist()`
DocDelete(r, p) ==
    /\ initPc[r] = "done"
    /\ LET doc == WasmDeleteField(wasmDoc[r], p)
       IN RaceStep(r, doc, clock[r], stored[r], initPc[r], fetched[r],
                   Append(queue, Snapshot(r, NewCall, doc, clock[r])),
                   [written[r] EXCEPT ![p] = NoWritten],
                   Overlapping(r))

\* merge() up to `await this.persist()`
DocMerge(r, s) ==
    /\ r # s
    /\ initPc[r] = "done"
    /\ initPc[s] = "done"
    /\ LET doc == WasmMerge(wasmDoc[r], wasmDoc[s])
       IN RaceStep(r, doc, clock[r], stored[r], initPc[r], fetched[r],
                   Append(queue, Snapshot(r, NewCall, doc, clock[r])),
                   [p \in Paths |->
                       IF doc.fields[p] = wasmDoc[r].fields[p]
                       THEN written[r][p] ELSE NoWritten],
                   Overlapping(r))

\* a storage adapter that settles the newest pending write first
StorageSettleLast(ok) ==
    /\ queue # <<>>
    /\ LET h == queue[Len(queue)]
       IN RaceStep(h.r, wasmDoc[h.r], clock[h.r],
                   IF ok THEN h.snapshot ELSE stored[h.r], initPc[h.r],
                   fetched[h.r], SubSeq(queue, 1, Len(queue) - 1),
                   [p \in Paths |->
                       IF written[h.r][p].o = h.o
                       THEN [written[h.r][p] EXCEPT
                                !.state = IF ok THEN "ok" ELSE "failed"]
                       ELSE written[h.r][p]],
                   Settling(h.r, ok))

\* the oldest storage.set settles: on success the snapshot is stored and the
\* call resolves, on failure it rejects
StorageSettle(ok) ==
    /\ queue # <<>>
    /\ LET h == Head(queue)
       IN RaceStep(h.r, wasmDoc[h.r], clock[h.r],
                   IF ok THEN h.snapshot ELSE stored[h.r], initPc[h.r],
                   fetched[h.r], Tail(queue),
                   [p \in Paths |->
                       IF written[h.r][p].o = h.o
                       THEN [written[h.r][p] EXCEPT
                                !.state = IF ok THEN "ok" ELSE "failed"]
                       ELSE written[h.r][p]],
                   Settling(h.r, ok))

NextRace ==
    \/ \E r \in Clients, ok \in BOOLEAN : DocInitWasm(r, ok)
    \/ \E r \in Clients : DocInitLoaded(r)
    \/ \E r \in Clients, p \in Paths, v \in Values : DocSet(r, p, v)
    \/ \E r \in Clients, upd \in Updates : DocUpdate(r, upd)
    \/ \E ok \in BOOLEAN : StorageSettle(ok)

SpecRace == InitRace /\ [][NextRace]_vars

\* the document whose calls overlap, and the states of the document it is
\* merged with: new, or after one settled set('q', 'y')
OverlapDoc == "A"
PeerDocs == {EmptyDoc, WasmSetField(EmptyDoc, "q", "y", 1, "B")}
PeerClock(doc) == IF doc = EmptyDoc THEN 0 ELSE 1

InitOverlap ==
    /\ \E peer \in PeerDocs :
          /\ wasmDoc = [r \in Clients |->
                           IF r = OverlapDoc THEN EmptyDoc ELSE peer]
          /\ clock = [r \in Clients |->
                         IF r = OverlapDoc THEN 0 ELSE PeerClock(peer)]
          /\ data = [r \in Clients |->
                        IF r = OverlapDoc THEN ToJSON(EmptyDoc)
                        ELSE ToJSON(peer)]
          /\ stored = [r \in Clients |->
                          IF r = OverlapDoc \/ peer = EmptyDoc THEN NoStored
                          ELSE Persisted(r, ToJSON(peer), PeerClock(peer))]
    /\ merged = [r \in Clients |-> {r}]
    /\ lastOp = Op("init", "-", "-", "-", "-")
    /\ tomb = {}
    /\ nOps = 0
    /\ limit = MaxOps
    /\ InitDeltas /\ InitServer
    /\ InitExtra

\* overlapping calls on one initialised document
NextOverlap ==
    \/ \E p \in Paths, v \in Values : DocSet(OverlapDoc, p, v)
    \/ \E upd \in Updates : DocUpdate(OverlapDoc, upd)
    \/ \E p \in Paths : DocDelete(OverlapDoc, p)
    \/ \E s \in Clients : DocMerge(OverlapDoc, s)
    \/ \E ok \in BOOLEAN : StorageSettle(ok)

SpecOverlap == InitOverlap /\ [][NextOverlap]_vars

SpecRedis == Init /\ [][NextRedis]_vars

InitLive ==
    /\ InitDocuments /\ InitDeltas /\ InitServer /\ limit = MaxOps
    /\ InitComponents /\ InitBoot("boot", MaxLiveOps) /\ InitLater

\* the server process with a PostgreSQL server that may fail and recover
NextPersist ==
    \/ \E dbUrl \in Urls, redisUrl \in Urls, dbOk \in BOOLEAN,
          redisOk \in BOOLEAN : Startup(dbUrl, dbOk, redisUrl, redisOk)
    \/ \E c \in ConnIds : HandleConnection(c)
    \/ \E c \in ConnIds, m \in AuthMsgs : HandleAuth(c, m)
    \/ \E c \in ConnIds, m \in DeltaMsgs, fail \in SUBSET ConnIds :
          HandleDelta(c, m, fail)
    \/ DbFail
    \/ DbRecover
    \/ Flush

\* recovery is the premise; a coordinator with storage gets to write
SpecPersist ==
    InitLive /\ [][NextPersist]_vars /\ WF_vars(DbRecover) /\ WF_vars(Flush)

\* the server process from startup to exit
NextShutdown ==
    \/ \E dbUrl \in Urls, redisUrl \in Urls, dbOk \in BOOLEAN,
          redisOk \in BOOLEAN : Startup(dbUrl, dbOk, redisUrl, redisOk)
    \/ \E c \in ConnIds : HandleConnection(c)
    \/ \E c \in ConnIds, m \in AuthMsgs : HandleAuth(c, m)
    \/ \E c \in ConnIds, m \in SyncRequestMsgs : HandleSyncRequest(c, m)
    \/ \E wsDone \in BOOLEAN, httpDone \in BOOLEAN : Signal(wsDone, httpDone)
    \/ WsClosed
    \/ HttpClosed
    \/ ForceExit

\* a close that completes calls back, and a registered timer fires
SpecShutdown ==
    InitLive /\ [][NextShutdown]_vars
       /\ WF_vars(WsClosed) /\ WF_vars(HttpClosed) /\ WF_vars(ForceExit)

\* updateVectorClock and mergeVectorClock calls, interleaved
NextPgClock ==
    \/ \E s \in PgClients, d \in DocIds, clk \in PgClocks :
          \E order \in Entries(clk) : PgBegin(s, d, clk, order)
    \/ \E s \in PgClients : PgStatement(s)
    \/ \E s \in PgClients : PgCommit(s)
    \/ \E s \in PgClients : PgRollback(s)
    \/ \E d \in DocIds, cl \in Clients, v \in PgValues : PgUpdate(d, cl, v)

SpecPgClock == Init /\ [][NextPgClock]_vars

NextPg ==
    \/ \E s \in PgClients, d \in DocIds, clk \in PgClocks :
          \E order \in Entries(clk) : PgBegin(s, d, clk, order)
    \/ \E s \in PgClients : PgStatement(s)
    \/ \E s \in PgClients : PgCommit(s)
    \/ \E s \in PgClients : PgRollback(s)

SpecPg == Init /\ [][NextPg]_vars

SpecKit == Init /\ [][NextKit]_vars

SpecWasm == Init /\ [][NextWasm]_vars

SpecObs == Init /\ [][NextObs]_vars

\* --------------------------------------------------------------- WasmDelta
\* compute(from, to): a change for every path of `to` that `from` lacks or
\* holds with a strictly lower stamp
ComputeMissingOnly(from, to) ==
    [p \in Paths |->
        IF to.fields[p] # NoReg /\ from.fields[p] = NoReg
        THEN to.fields[p] ELSE NoReg]
Compute(from, to) ==
    [p \in Paths |->
        IF /\ to.fields[p] # NoReg
           /\ \/ from.fields[p] = NoReg
              \/ StampGreater(to.fields[p], from.fields[p])
        THEN to.fields[p] ELSE NoReg]

\* applyTo(document, client_id): assign every change to its register and
\* observe the change's stamp
RECURSIVE ApplyChanges(_, _, _)
ApplyChanges(delta, doc, ps) ==
    IF ps = {} THEN doc
    ELSE LET p == CHOOSE x \in ps : TRUE
         IN ApplyChanges(delta,
                IF delta[p] = NoReg THEN doc
                ELSE [fields |-> [doc.fields EXCEPT ![p] = Assign(@, delta[p])],
                      vc |-> Observe(doc.vc, delta[p].client, delta[p].clock)],
                ps \ {p})

ApplyTo(delta, doc, id) == ApplyChanges(delta, doc, Paths)

BuildSetField(n, p, v, c, id) ==
    /\ dpc = "build"
    /\ nBuild < MaxBuild
    /\ docs' = [docs EXCEPT ![n] = WasmSetField(@, p, v, c, id)]
    /\ nBuild' = nBuild + 1
    /\ UNCHANGED <<deltas, applied, dpc>>
    /\ UNCHANGED svars
    /\ UNCHANGED wvars
    /\ UNCHANGED xvars

BuildDeleteField(n, p) ==
    /\ dpc = "build"
    /\ nBuild < MaxBuild
    /\ docs' = [docs EXCEPT ![n] = WasmDeleteField(@, p)]
    /\ nBuild' = nBuild + 1
    /\ UNCHANGED <<deltas, applied, dpc>>
    /\ UNCHANGED svars
    /\ UNCHANGED wvars
    /\ UNCHANGED xvars

ComputeDeltas ==
    /\ dpc = "build"
    /\ deltas' = [d1 |-> Compute(EmptyDoc, docs["a"]),
                  d2 |-> Compute(EmptyDoc, docs["b"]),
                  ab |-> Compute(docs["a"], docs["b"])]
    /\ dpc' = "computed"
    /\ UNCHANGED <<docs, applied, nBuild>>
    /\ UNCHANGED svars
    /\ UNCHANGED wvars
    /\ UNCHANGED xvars

\* d1 and d2 to copies of d, the delta from a to b to a copy of a
ApplyFirst ==
    /\ dpc = "computed"
    /\ applied' = [once |-> ApplyTo(deltas.d1, docs["d"], "A"),
                   twice |-> ApplyTo(deltas.d1, docs["d"], "A"),
                   o12 |-> ApplyTo(deltas.d1, docs["d"], "A"),
                   o21 |-> ApplyTo(deltas.d2, docs["d"], "A"),
                   f |-> ApplyTo(deltas.ab, docs["a"], "A")]
    /\ dpc' = "applied1"
    /\ UNCHANGED <<docs, deltas, nBuild>>
    /\ UNCHANGED svars
    /\ UNCHANGED wvars
    /\ UNCHANGED xvars

\* d1 a second time, and the other delta of the pair
ApplySecond ==
    /\ dpc = "applied1"
    /\ applied' = [applied EXCEPT
                     !.twice = ApplyTo(deltas.d1, @, "A"),
                     !.o12 = ApplyTo(deltas.d2, @, "A"),
                     !.o21 = ApplyTo(deltas.d1, @, "A")]
    /\ dpc' = "applied2"
    /\ UNCHANGED <<docs, deltas, nBuild>>
    /\ UNCHANGED svars
    /\ UNCHANGED wvars
    /\ UNCHANGED xvars

Next ==
    \/ \E r \in Clients, p \in Paths, v \in Values : Set(r, p, v)
    \/ \E r \in Clients, upd \in Updates : Update(r, upd)
    \/ \E r \in Clients, p \in Paths : Delete(r, p)
    \/ \E r, s \in Clients : Merge(r, s)
    \/ \E r \in Clients : Reload(r)

Spec == Init /\ [][Next]_vars

\* two replicas that write disjoint fields: A writes p only, B writes q only
OwnPath(r) == IF r = "A" THEN "p" ELSE "q"

InitField ==
    /\ InitDocuments /\ InitDeltas /\ InitServer /\ InitExtra
    /\ limit = MaxFieldOps

NextField ==
    \/ \E r \in Clients, v \in Values : Set(r, OwnPath(r), v)
    \/ \E r \in Clients : Delete(r, OwnPath(r))
    \/ \E r, s \in Clients : Merge(r, s)
    \/ \E r \in Clients : Reload(r)

SpecField == InitField /\ [][NextField]_vars

\* clients that update fields and merge each other's documents
NextLww ==
    \/ \E r \in Clients, p \in Paths, v \in Values : Set(r, p, v)
    \/ \E r \in Clients, upd \in Updates : Update(r, upd)
    \/ \E r, s \in Clients : Merge(r, s)

SpecLww == Init /\ [][NextLww]_vars

NextDelta ==
    \/ \E n \in DocNames, p \in Paths, v \in Values, c \in 1..MaxClock,
          id \in Clients : BuildSetField(n, p, v, c, id)
    \/ \E n \in DocNames, p \in Paths : BuildDeleteField(n, p)
    \/ ComputeDeltas
    \/ ApplyFirst
    \/ ApplySecond

SpecDelta == Init /\ [][NextDelta]_vars

\* ------------------------------------------------------------------ claims
AllMerged == \A r \in Clients : merged[r] = Clients

RegsAt(p) == {wasmDoc[r].fields[p] : r \in Clients} \ {NoReg}

I1(doc) ==
    \A p \in Paths :
        doc.fields[p] # NoReg => doc.fields[p].clock <= doc.vc[doc.fields[p].client]

Coord(r, c) == IF c = r THEN clock[r] ELSE wasmDoc[r].vc[c]

\* C1: once every replica has merged the writes of every other replica,
\* get() returns the same value on all replicas for every path.
C1_Convergence ==
    AllMerged => \A r, s \in Clients : \A p \in Paths : data[r][p] = data[s][p]

\* C2: the stamp given to a local set(p, v) is greater than the stamp of
\* every register already in the document, and after the set the register at
\* p holds v.
C2_LocalWriteWins ==
    [][\A r \in Clients :
          (lastOp'.op = "set" /\ lastOp'.r = r) =>
             /\ \A q \in Paths :
                   wasmDoc[r].fields[q] # NoReg =>
                      StampGreater(Reg(lastOp'.value, clock'[r], r),
                                   wasmDoc[r].fields[q])
             /\ wasmDoc'[r].fields[lastOp'.path] =
                   Reg(lastOp'.value, clock'[r], r)
             /\ data'[r][lastOp'.path] = lastOp'.value]_vars

\* C3: after every operation each field's stamp clock is at most the
\* document's vector-clock entry for the stamp's replica, and the persisted
\* version map covers the stamp of every field present in the persisted data.
C3_I1Maintained ==
    \A r \in Clients :
        /\ I1(wasmDoc[r])
        /\ stored[r].present =>
              \A p \in Paths :
                 stored[r].data[p] # Undefined =>
                    wasmDoc[r].fields[p].clock
                       <= stored[r].version[wasmDoc[r].fields[p].client]

\* C4: no clock coordinate of a document (its own: the local counter) ever
\* decreases, whatever the operation.
C4_MonotoneClocks ==
    [][\A r, c \in Clients : Coord(r, c)' >= Coord(r, c)]_vars

\* C5: applying the same delta twice leaves the document (fields, stamps and
\* vector clock) as applying it once.
C5_Idempotence ==
    dpc = "applied2" => applied.twice = applied.once

C5_Witness ==
    /\ dpc = "applied2"
    /\ deltas.d1 # NoDelta
    /\ docs["d"] # EmptyDoc
    /\ applied.once # docs["d"]

NoStampConflict(x, y) ==
    \A p \in Paths :
        (/\ x[p] # NoReg
         /\ y[p] # NoReg
         /\ x[p].clock = y[p].clock
         /\ x[p].client = y[p].client) => x[p].value = y[p].value

C7_TieBreak ==
    [][\A r, s \in Clients : \A p \in Paths :
          (/\ lastOp'.op = "merge" /\ lastOp'.r = r /\ lastOp'.s = s
           /\ wasmDoc[r].fields[p] # NoReg
           /\ wasmDoc[s].fields[p] # NoReg
           /\ wasmDoc[r].fields[p].clock = wasmDoc[s].fields[p].clock
           /\ wasmDoc[r].fields[p].client # wasmDoc[s].fields[p].client) =>
             LET win == IF IdLess(wasmDoc[r].fields[p].client,
                                  wasmDoc[s].fields[p].client)
                        THEN wasmDoc[s].fields[p] ELSE wasmDoc[r].fields[p]
             IN /\ wasmDoc'[r].fields[p] = win
                /\ data'[r][p] = IF win.value = Tombstone THEN Undefined
                                 ELSE win.value]_vars

\* A and B each wrote p once at clock 1 (x and y), then A merged B: y survives
C7_Witness ==
    /\ nOps = 3
    /\ lastOp.op = "merge" /\ lastOp.r = "A" /\ lastOp.s = "B"
    /\ clock["A"] = 1 /\ clock["B"] = 1
    /\ wasmDoc["B"].fields["p"] = Reg("y", 1, "B")
    /\ stored["A"].version["A"] = 1
    /\ wasmDoc["A"].fields["q"] = NoReg /\ wasmDoc["B"].fields["q"] = NoReg
    /\ data["A"]["p"] = "y" /\ data["B"]["p"] = "y"

\* C8 as stated: for any two documents a and b, applying compute(a, b) to a
\* gives b's visible field values.
C8_DeltaFaithfulAnyDocs ==
    dpc = "applied2" => ToJSON(applied.f) = ToJSON(docs["b"])

\* b holds, for every register of a, the same register or one with a higher stamp
Dominates(b, a) ==
    \A p \in Paths :
        \/ a.fields[p] = NoReg
        \/ b.fields[p] = a.fields[p]
        \/ b.fields[p] # NoReg /\ StampGreater(b.fields[p], a.fields[p])

\* C8 (amended): for any two documents a and b where b holds every register
\* of a or a register with a higher stamp in its place, applying
\* compute(a, b) to a gives b's visible field values.
C8_DeltaFaithful ==
    (dpc = "applied2" /\ Dominates(docs["b"], docs["a"])) =>
        ToJSON(applied.f) = ToJSON(docs["b"])

C8_Witness ==
    /\ dpc = "applied2"
    /\ Dominates(docs["b"], docs["a"])
    /\ docs["a"] # EmptyDoc
    /\ deltas.ab # NoDelta
    /\ \E p \in Paths : /\ docs["a"].fields[p] # NoReg
                        /\ deltas.ab[p] # NoReg

\* C9: after the replicas merge, a path whose set carries a higher stamp than
\* its delete reads the set value everywhere, and a path whose delete comes
\* last (it carries the higher stamp) reads as deleted everywhere.
C9_TombstoneOverwrite ==
    AllMerged =>
        \A p \in Paths :
            /\ \A g \in RegsAt(p) :
                  (/\ g.value # Tombstone
                   /\ \A h \in RegsAt(p) \ {g} : StampGreater(g, h)) =>
                     \A r \in Clients : data[r][p] = g.value
            /\ p \in tomb => \A r \in Clients : data[r][p] = Undefined

\* C10: delete(path) advances the local clock by one and leaves at path a
\* tombstone carrying that new stamp.
C10_DeleteStampsTombstone ==
    [][\A r \in Clients :
          (lastOp'.op = "delete" /\ lastOp'.r = r) =>
             /\ clock'[r] = clock[r] + 1
             /\ wasmDoc'[r].fields[lastOp'.path] =
                   Reg(Tombstone, clock'[r], r)]_vars

\* C11: update() with k fields advances the local clock by exactly k; the
\* i-th field in iteration order is written with the clock value old + i, so
\* the values are strictly increasing and no two fields of one call share a
\* stamp; a register that does not carry its field's stamp already held a
\* stamp that is not lower.
C11_UpdateTicksPerField ==
    [][\A r \in Clients :
          (lastOp'.op = "update" /\ lastOp'.r = r) =>
             LET upd == lastOp'.upd
                 k == Len(upd)
                 Given(i) == Reg(upd[i][2], clock[r] + i, r)
                 Written(i) == wasmDoc'[r].fields[upd[i][1]] = Given(i)
             IN /\ clock'[r] = clock[r] + k
                /\ \A i \in 1..k :
                      \/ Written(i)
                      \/ /\ wasmDoc'[r].fields[upd[i][1]]
                               = wasmDoc[r].fields[upd[i][1]]
                         /\ ~StampGreater(Given(i), wasmDoc[r].fields[upd[i][1]])
                /\ \A i, j \in 1..k :
                      (i < j /\ Written(i) /\ Written(j)) =>
                         /\ wasmDoc'[r].fields[upd[i][1]].clock
                               < wasmDoc'[r].fields[upd[j][1]].clock
                         /\ StampGreater(wasmDoc'[r].fields[upd[j][1]],
                                         wasmDoc'[r].fields[upd[i][1]])]_vars

\* an update of two fields has been applied to an empty replica
C11_Witness ==
    /\ lastOp.op = "update"
    /\ Len(lastOp.upd) = 2
    /\ clock[lastOp.r] = 2
    /\ wasmDoc[lastOp.r].fields[lastOp.upd[1][1]].clock = 1
    /\ wasmDoc[lastOp.r].fields[lastOp.upd[2][1]].clock = 2

\* C12: when two replicas write disjoint paths, a merge leaves the value of
\* the merging replica's own field unchanged and gives it the other replica's
\* field with the value it has there; once both have merged each other they
\* hold the same fields and none is lost.
C12_FieldIndependence ==
    [][\A r, s \in Clients :
          (lastOp'.op = "merge" /\ lastOp'.r = r /\ lastOp'.s = s) =>
             /\ data'[r][OwnPath(r)] = data[r][OwnPath(r)]
             /\ data'[r][OwnPath(s)] = data[s][OwnPath(s)]
             /\ AllMerged' => data'[r] = data'[s]]_vars

\* C13: loading the persisted snapshot into a new SyncDocument reproduces
\* every register exactly (value, stamp clock, stamp replica) and the same
\* vector clock as the document that was persisted.
C13_PersistRoundTrip ==
    [][\A r \in Clients :
          (lastOp'.op = "reload" /\ lastOp'.r = r) =>
             /\ \A p \in Paths : wasmDoc'[r].fields[p] = wasmDoc[r].fields[p]
             /\ wasmDoc'[r].vc = wasmDoc[r].vc]_vars

\* the value the operation op wrote to path p, if it was a set or an update
\* that wrote p
WrittenBy(op, p) ==
    IF op.op = "set" /\ op.path = p THEN op.value
    ELSE IF op.op = "update" /\ \E i \in 1..Len(op.upd) : op.upd[i][1] = p
    THEN op.upd[CHOOSE i \in 1..Len(op.upd) : op.upd[i][1] = p][2]
    ELSE Undefined

\* C14: when a client r has updated a field and another client s updates the
\* same field later, the document that results from merging the two (either
\* way) holds the value of s's later update, whatever the number of updates
\* each client made before.
C14_LastWriteWinsByTime ==
    [][\A r, s \in Clients : \A p \in Paths :
          (/\ r # s
           /\ lastOp.r = s
           /\ WrittenBy(lastOp, p) # Undefined
           /\ wasmDoc[r].fields[p].client = r
           /\ lastOp'.op = "merge"
           /\ {lastOp'.r, lastOp'.s} = {r, s}) =>
             data'[lastOp'.r][p] = WrittenBy(lastOp, p)]_vars

\* the last handler handled a DELTA from c for d that passed both checks
DeltaAccepted(c, d) ==
    /\ srvOp'.op = "delta" /\ srvOp'.c = c /\ srvOp'.d = d
    /\ ~NotAuthenticated(c)
    /\ CanWriteDocument(conns[c].tokenPayload, d)

\* C15: for every DELTA accepted from connection c for document d, the send
\* calls of the handler go to exactly the authenticated connections subscribed
\* to d other than c, each carries the delta message unchanged, and none goes
\* to c.
C15_BroadcastToOthers ==
    [][\A c \in ConnIds, d \in DocIds :
          DeltaAccepted(c, d) =>
             /\ {x.to : x \in sent'} =
                   {k \in subs[d] \ {c} : conns[k].state = "Authenticated"}
             /\ \A x \in sent' : x.msg = srvOp'.msg /\ x.to # c]_vars

\* a subscribed writer sent a delta that reached another subscriber
C15_Witness ==
    /\ srvOp.op = "delta"
    /\ srvOp.c \in subs[srvOp.d]
    /\ CanWriteDocument(conns[srvOp.c].tokenPayload, srvOp.d)
    /\ \E x \in sent : x.to # srvOp.c /\ x.msg = srvOp.msg /\ x.ok

\* C16: after the server accepts a DELTA for document d, the server's document
\* state for d holds the delta's changes resolved by LWW (the state a later
\* SYNC_REQUEST returns).
C16_DeltaApplied ==
    [][\A c \in ConnIds, d \in DocIds :
          DeltaAccepted(c, d) =>
             \A p \in Paths :
                srvOp'.msg.delta[p] # NoReg =>
                   documents'[d][p] = Assign(documents[d][p], srvOp'.msg.delta[p])]_vars

\* the last handler handled a SYNC_REQUEST or DELTA from c for d that c is not
\* authorized for
Unauthorized(c, d) ==
    /\ srvOp'.op \in {"sync", "delta"} /\ srvOp'.c = c /\ srvOp'.d = d
    /\ \/ NotAuthenticated(c)
       \/ srvOp'.op = "sync" /\ ~CanReadDocument(conns[c].tokenPayload, d)
       \/ srvOp'.op = "delta" /\ ~CanWriteDocument(conns[c].tokenPayload, d)

\* C17: a SYNC_REQUEST or DELTA from a connection that is not authenticated or
\* lacks the read (SYNC_REQUEST) or write (DELTA) permission changes no
\* subscriber set, document state or vector clock, is not broadcast, and is
\* answered with one error message to that connection.
C17_UnauthorizedNoOp ==
    [][\A c \in ConnIds, d \in DocIds :
          Unauthorized(c, d) =>
             /\ subs' = subs
             /\ documents' = documents
             /\ srvClock' = srvClock
             /\ conns' = conns
             /\ \E x \in sent' :
                   /\ sent' = {x}
                   /\ x.to = c
                   /\ x.msg.type = "ERROR"]_vars

\* a reader's DELTA was refused while another connection is subscribed
C17_Witness ==
    /\ srvOp.op = "delta"
    /\ conns[srvOp.c].state = "Authenticated"
    /\ ~CanWriteDocument(conns[srvOp.c].tokenPayload, srvOp.d)
    /\ CanReadDocument(conns[srvOp.c].tokenPayload, srvOp.d)
    /\ \E k \in subs[srvOp.d] : k # srvOp.c /\ conns[k].state = "Authenticated"
    /\ sent = {Send(srvOp.c, ErrorMsg("Permission denied", srvOp.d), TRUE)}

\* C18: every handled AUTH message ends with the connection Authenticated and
\* an AUTH_SUCCESS sent to it, or with the connection closed; and a closed
\* connection stays closed.
C18_AuthOutcomes ==
    [][\A c \in ConnIds :
          /\ (srvOp'.op = "auth" /\ srvOp'.c = c) =>
                \/ /\ conns'[c].state = "Authenticated"
                   /\ \E x \in sent' : x.to = c /\ x.msg.type = "AUTH_SUCCESS"
                \/ conns'[c].state = "Closed"
          /\ conns[c].state = "Closed" => conns'[c].state = "Closed"]_vars

\* C19: a connection that has disconnected is in no document's subscriber set.
C19_DisconnectUnsubscribes ==
    \A c \in ConnIds :
        conns[c].state = "Closed" => \A d \in DocIds : c \notin subs[d]

\* C20: a subscriber to which a broadcast send failed is removed from the
\* document's subscriber set, and the other subscribers are still sent the
\* message.
C20_FailedSendDropsSubscriber ==
    [][\A c \in ConnIds, d \in DocIds :
          DeltaAccepted(c, d) =>
             /\ \A x \in sent' : ~x.ok => x.to \notin subs'[d]
             /\ \A k \in subs[d] \ {c} :
                   conns[k].state = "Authenticated" =>
                      \E x \in sent' : x.to = k]_vars

\* the fields of document d that a client with the vector clock known lacks
Exceeding(d, known) ==
    {p \in Paths :
        /\ documents[d][p] # NoReg
        /\ documents[d][p].clock > known[documents[d][p].client]}

\* C21: the response to an authorized SYNC_REQUEST that carries the client's
\* vector clock contains exactly the fields of the document whose stamp clock
\* exceeds that clock at the stamp's replica.
C21_CatchUpExact ==
    [][\A c \in ConnIds, d \in DocIds :
          (/\ srvOp'.op = "sync" /\ srvOp'.c = c /\ srvOp'.d = d
           /\ ~NotAuthenticated(c)
           /\ CanReadDocument(conns[c].tokenPayload, d)
           /\ srvOp'.msg.hasClock) =>
             \E x \in sent' :
                /\ x.to = c
                /\ x.msg.type = "SYNC_RESPONSE"
                /\ {p \in Paths : x.msg.state[p] # NoReg}
                      = Exceeding(d, srvOp'.msg.vectorClock)]_vars

\* C22: a raw message that is not valid JSON, lacks a required field or has
\* an unknown type changes no subscriber set, document or vector clock, and
\* its sender is sent an error with code bad_request.
C22_MalformedRejected ==
    [][\A c \in ConnIds :
          (srvOp'.op = "raw" /\ srvOp'.c = c) =>
             /\ subs' = subs
             /\ documents' = documents
             /\ srvClock' = srvClock
             /\ \E x \in sent' :
                   /\ x.to = c
                   /\ x.msg.type = "ERROR"
                   /\ x.msg.error = "bad_request"]_vars

\* C23: in multi-server mode (Redis connected), every delta the server
\* accepts and applies for document d is
\* published to the fan-out channel doc:{d} under the channel prefix.
C23_DeltaPublished ==
    [][\A c \in ConnIds, d \in DocIds :
          (redisConnected /\ DeltaAccepted(c, d)) =>
             \E x \in published' :
                /\ x.channel = DocumentChannel(d)
                /\ x.payload = srvOp'.msg]_vars

\* C24: when mergeVectorClock(doc, clock) commits, every client of clock
\* holds the maximum of its previously stored value and clock[client], and
\* every other entry is unchanged; a merge that is rolled back changes no
\* entry.
MaxStored(row, v) == IF row = NoRow \/ row < v THEN v ELSE row

C24_MergeVectorClock ==
    [][/\ (pgOp' # pgOp /\ pgOp'.op = "commit") =>
            \A d \in DocIds, cl \in Clients :
               pgTable'[d][cl] =
                  IF d = pgOp'.doc /\ cl \in DOMAIN pgOp'.clock
                  THEN MaxStored(pgTable[d][cl], pgOp'.clock[cl])
                  ELSE pgTable[d][cl]
       /\ (pgOp' # pgOp /\ pgOp'.op = "rollback") => pgTable' = pgTable]_vars

C24_Witness ==
    /\ pgOp.op = "commit"
    /\ \E cl \in DOMAIN pgOp.clock : pgTable[pgOp.doc][cl] > pgOp.clock[cl]
    /\ \E cl \in Clients \ DOMAIN pgOp.clock : pgTable[pgOp.doc][cl] # NoRow

\* the server runs without PostgreSQL and without Redis
MemoryOnly == phase = "running" /\ ~storageConnected /\ ~redisConnected

\* C25: whatever the PostgreSQL and Redis connects do at startup, the server
\* starts, using exactly what connected; and in memory-only mode a handler
\* never fails: an authentication is answered with success or an
\* authentication error, a permitted sync request subscribes and is answered
\* with the state, an accepted delta reaches every other authenticated
\* subscriber.
C25_MemoryOnlyMode ==
    [][/\ (phase = "boot" /\ phase' # "boot") =>
             /\ phase' = "running"
             /\ storageConnected' = (bootOp'.db = "connected")
             /\ redisConnected' = (bootOp'.redis = "connected")
       /\ (MemoryOnly /\ nSrv' = nSrv + 1) =>
             /\ \A x \in sent' :
                   x.msg.type = "ERROR" =>
                      x.msg.error \in {"Not authenticated", "Permission denied",
                                       "API key authentication not yet implemented"}
             /\ srvOp'.op = "auth" => sent' # {}
             /\ \A c \in ConnIds, d \in DocIds :
                   /\ (/\ srvOp'.op = "sync" /\ srvOp'.c = c /\ srvOp'.d = d
                       /\ ~NotAuthenticated(c)
                       /\ CanReadDocument(conns[c].tokenPayload, d)) =>
                         /\ c \in subs'[d]
                         /\ \E x \in sent' :
                               x.to = c /\ x.msg.type = "SYNC_RESPONSE"
                   /\ DeltaAccepted(c, d) =>
                         {x.to : x \in sent'} =
                            {k \in subs[d] \ {c} :
                                k \in Registry
                                /\ conns[k].state = "Authenticated"}]_vars

C25_Witness ==
    /\ MemoryOnly
    /\ bootOp.db = "failed"
    /\ bootOp.redis = "failed"
    /\ srvOp.op = "delta"
    /\ \E x \in sent : x.msg.type = "DELTA" /\ x.to # srvOp.c

\* C26: document(id) returns the cached instance without starting its
\* initialization again; with nothing cached it creates an instance never
\* returned before and starts its initialization once; deleteDocument(id) and
\* clearAll() dispose the cached instances and uncache them; no instance's
\* initialization is ever started twice.
C26_DocumentCache ==
    [][(initialized /\ nKit' = nKit + 1) =>
          /\ \A id \in DocIds :
                (kitOp'.op = "document" /\ kitOp'.id = id) =>
                   IF kitDocuments[id] # 0
                   THEN /\ kitOp'.ret = kitDocuments[id]
                        /\ kitDocuments' = kitDocuments
                        /\ initStarted' = initStarted
                        /\ nInst' = nInst
                   ELSE /\ kitOp'.ret > nInst
                        /\ kitOp'.ret \notin disposed'
                        /\ kitDocuments' =
                              [kitDocuments EXCEPT ![id] = kitOp'.ret]
                        /\ initStarted' =
                              [initStarted EXCEPT ![kitOp'.ret] = 1]
          /\ \A id \in DocIds :
                (kitOp'.op = "delete" /\ kitOp'.id = id) =>
                   /\ kitDocuments'[id] = 0
                   /\ kitDocuments[id] # 0 => kitDocuments[id] \in disposed'
          /\ kitOp'.op = "clear" =>
                \A id \in DocIds :
                   /\ kitDocuments'[id] = 0
                   /\ kitDocuments[id] # 0 => kitDocuments[id] \in disposed'
          /\ \A i \in Instances : initStarted'[i] <= 1]_vars

C26_Witness ==
    /\ kitOp.op = "document"
    /\ kitOp.cached
    /\ kitOp.ret = kitDocuments[kitOp.id]
    /\ kitOp.ret \notin disposed
    /\ disposed # {}

\* C27: while init() has not completed, document, listDocuments,
\* deleteDocument and clearAll throw NOT_INITIALIZED and leave the cache, the
\* instances and storage as they were; a failing init() leaves the instance
\* uninitialized, and an init() call on an uninitialized instance starts a
\* new attempt.
C27_NotInitialized ==
    [][(~initialized /\ nKit' = nKit + 1) =>
          /\ kitOp'.op \in {"document", "list", "delete", "clear"} =>
                /\ kitOp'.err = "NOT_INITIALIZED"
                /\ kitDocuments' = kitDocuments
                /\ kitStore' = kitStore
                /\ nInst' = nInst
                /\ disposed' = disposed
          /\ kitOp'.err = "INIT_ERROR" => ~initialized'
          /\ \A k \in KitCalls :
                (kitInits[k] = "idle" /\ kitInits'[k] # "idle") =>
                   kitInits'[k] = "wasm"]_vars

C27_Witness ==
    /\ ~initialized
    /\ kitFailures >= 1
    /\ \E k \in KitCalls : kitInits[k] = "wasm"
    /\ kitOp.err = "NOT_INITIALIZED"

\* an initialization is in flight
InFlight == \E p \in Attempts : promises[p] = "pending"

\* the step is the beginning of an initWASM() call by k
Calls(k) == nWasm' = nWasm + 1 /\ wasmOp'.k = k /\ callers[k].pc = "idle"

\* C28: a call made while an initialization is in flight awaits that
\* initialization and starts none; a call made when a module is cached returns
\* it and starts none; a call made when no module is cached and no
\* initialization is in flight, none having been started or the last one
\* having failed, starts a new initialization.
C28_InitWasmSingleton ==
    [][\A k \in WasmCallers :
          Calls(k) =>
             /\ (wasmModule = 0 /\ InFlight /\ initPromise # 0) =>
                   /\ ~wasmOp'.started
                   /\ callers'[k].p = initPromise
             /\ wasmModule # 0 =>
                   /\ ~wasmOp'.started
                   /\ wasmOp'.op = "cached"
             /\ (/\ wasmModule = 0
                 /\ ~InFlight
                 /\ initPromise # 0 => promises[initPromise] = "rejected") =>
                   wasmOp'.started]_vars

\* C29: subscribe(f) invokes f, and only f, at once with the current state;
\* an operation that completes invokes exactly the callbacks that were
\* subscribed and have not been unsubscribed or disposed since, each with the
\* current state; no other step invokes a callback.
C29_SubscribeNotify ==
    [][nObs' = nObs + 1 =>
          /\ notifyOp'.op = "subscribe" =>
                /\ notifyOp'.called = {notifyOp'.f}
                /\ notifyOp'.data = writes
          /\ notifyOp'.op = "completed" =>
                /\ notifyOp'.called = active
                /\ notifyOp'.data = writes
                /\ inFlight[notifyOp'.o].kind \in WriteKinds
          /\ notifyOp'.op \notin {"subscribe", "completed"} =>
                notifyOp'.called = {}]_vars

C29_Witness ==
    /\ notifyOp.op = "completed"
    /\ notifyOp.called # {}
    /\ notifyOp.called = active
    /\ handles \ active # {}

\* C30: a local operation notifies only after its snapshot is stored, what
\* the subscribers are given holds no write that is not in storage, and an
\* operation whose persist fails invokes no callback.
C30_PersistBeforeNotify ==
    [][nObs' = nObs + 1 =>
          /\ notifyOp'.op = "write" => notifyOp'.called = {}
          /\ (notifyOp'.op = "completed" /\ notifyOp'.called # {}) =>
                /\ inFlight[notifyOp'.o].snapshot \subseteq persisted'
                /\ notifyOp'.data \subseteq persisted'
          /\ notifyOp'.op = "rejected" => notifyOp'.called = {}]_vars

\* C31: a (clock, replica) stamp is attached to at most one write: two
\* registers that carry the same stamp, in one document or in the documents of
\* two replicas, are the same register at the same path with the same value.
C31_UniqueStamps ==
    \A r, s \in Clients, p, q \in Paths :
       LET x == wasmDoc[r].fields[p]
           y == wasmDoc[s].fields[q]
       IN (x # NoReg /\ y # NoReg /\ x.clock = y.clock /\ x.client = y.client)
             => (p = q /\ x.value = y.value)

\* C32: once init() has finished and every storage write has settled, each
\* path whose last set or update resolved successfully holds the value of
\* that write and the local clock is at least the clock of that write.
C32_InitKeepsWrites ==
    \A r \in Clients, p \in Paths :
       (initPc[r] = "done" /\ queue = <<>> /\ written[r][p].state = "ok") =>
          /\ data[r][p] = written[r][p].value
          /\ clock[r] >= written[r][p].clk

C34_HandlersBacked ==
    redisCommands = <<>> =>
       \A ch \in Channels : handlers[ch].has => ch \in subscribed

\* Claim C35: when a subscriber callback throws during the notification that
\* ends a set/update/delete/merge, every subscriber of the document is still
\* called with the new state, the operation resolves, and the document
\* state and the persisted snapshot stay as the operation wrote them.
C35_ThrowingCallbackContained ==
    [][\A o \in WriteIds :
          (inFlight[o].state = "persisting"
             /\ inFlight'[o].state # "persisting"
             /\ notifyOp'.threw # {})
            => /\ notifyOp'.called = subscribers
               /\ notifyOp'.data = writes
               /\ inFlight'[o].state = "done"
               /\ writes' = writes
               /\ persisted' = inFlight[o].snapshot
               /\ subscribers' = subscribers]_vars

\* C35 witness: an operation completed whose notification had a throwing
\* callback and another subscriber that was called as well
C35_Witness ==
    /\ notifyOp.op = "completed"
    /\ notifyOp.threw # {}
    /\ notifyOp.called \ notifyOp.threw # {}
    /\ inFlight[notifyOp.o].state = "done"
    /\ persisted = inFlight[notifyOp.o].snapshot

\* Claim C36: a SYNC_REQUEST from a connection that may read but not write
\* the document changes neither the document's state nor its vector clock on
\* the server; it changes only the document's subscriber set.
C36_ReaderSyncKeepsState ==
    [][(nSrv' = nSrv + 1 /\ srvOp'.op = "sync"
          /\ ~NotAuthenticated(srvOp'.c)
          /\ CanReadDocument(conns[srvOp'.c].tokenPayload, srvOp'.d)
          /\ ~CanWriteDocument(conns[srvOp'.c].tokenPayload, srvOp'.d))
         => /\ documents' = documents
            /\ srvClock' = srvClock
            /\ conns' = conns
            /\ \A d \in DocIds : d # srvOp'.d => subs'[d] = subs[d]]_vars

\* Claim C37: an AUTH with neither token nor apiKey authenticates the
\* connection as anonymous with empty canRead and canWrite lists and
\* isAdmin = false, and no DELTA sent by an anonymous connection is merged
\* into a document's state or vector clock or sent to another connection.
C37_AnonymousReadOnly ==
    [][/\ (nSrv' = nSrv + 1 /\ srvOp'.op = "auth"
            /\ srvOp'.msg.token = "" /\ srvOp'.msg.apiKey = "")
          => /\ conns'[srvOp'.c].state = "Authenticated"
             /\ conns'[srvOp'.c].tokenPayload.userId = "anonymous"
             /\ conns'[srvOp'.c].tokenPayload.permissions
                   = Permissions({}, {}, FALSE)
             /\ sent' = {Send(srvOp'.c,
                              AuthSuccess("anonymous",
                                          Permissions({}, {}, FALSE)), TRUE)}
       /\ (nSrv' = nSrv + 1 /\ srvOp'.op = "delta"
            /\ conns[srvOp'.c].tokenPayload.userId = "anonymous")
          => /\ documents' = documents
             /\ srvClock' = srvClock
             /\ \A x \in sent' : x.to = srvOp'.c /\ x.msg.type = "ERROR"]_vars

\* C37 witness: a connection authenticated without credentials sent a DELTA
\* for a document another authenticated connection is subscribed to
C37_Witness ==
    /\ srvOp.op = "delta"
    /\ conns[srvOp.c].state = "Authenticated"
    /\ conns[srvOp.c].tokenPayload = AnonymousPayload
    /\ \E k \in subs[srvOp.d] : k # srvOp.c /\ conns[k].state = "Authenticated"
    /\ sent = {Send(srvOp.c, ErrorMsg("Permission denied", srvOp.d), TRUE)}

\* Claim C38: the vector-clock value persisted for a (document, client) pair
\* never decreases, under any interleaving of updateVectorClock and
\* mergeVectorClock calls.
C38_ClockRowsNeverDecrease ==
    [][\A d \in DocIds, cl \in Clients :
          pgTable[d][cl] # NoRow => pgTable'[d][cl] >= pgTable[d][cl]]_vars

\* Claim C39: when PostgreSQL was configured and is unavailable at startup or
\* later, then once it is available again every vector clock changed in
\* memory is eventually written to it.
C39_EventuallyPersisted ==
    (bootOp.db # "unconfigured" /\ bootOp.db # "-" /\ dbState = "recovered")
       ~> ClocksSaved

\* Claim C40: after SIGTERM or SIGINT the server process eventually exits,
\* also when closing the WebSocket server or the HTTP server never
\* completes.
C40_EventuallyExits == (shutPc # "idle") ~> (shutPc = "exited")

====
